---- MODULE Spec2Model ----
(***************************************************************************)
(* Route anchor resolution and geocoded path rendering of the LST routes   *)
(* module (lstRoutes.js): the geocode cache, the route cache, endpoint     *)
(* resolution and the segment loop of drawRoutesOnMap.                     *)
(*                                                                         *)
(* Numbers: a latitude or longitude is an integer number of hundredths of  *)
(* a degree (52.24 is 5224); NaN stands for every non-finite or non-numeric*)
(* value.  Distances are metres.  localStorage is taken to accept every    *)
(* write (writeJSON swallows a failing setItem; that case is not modelled).*)
(***************************************************************************)
EXTENDS Integers, Sequences, FiniteSets, TLC

\* ------------------------------------------------------------------------
\* Bounds of the model
\* ------------------------------------------------------------------------
MaxCalls == 2

\* ------------------------------------------------------------------------
\* Numbers and coordinates
\* ------------------------------------------------------------------------
NaN == 999999

isFinite(x) == x # NaN

GEOCODE_CACHE_VERSION == 2

UK_BOUNDS == [minLat |-> 4980, maxLat |-> 6095, minLng |-> -865, maxLng |-> 180]

inUkBounds(lat, lng) ==
    /\ isFinite(lat) /\ isFinite(lng)
    /\ lat >= UK_BOUNDS.minLat /\ lat <= UK_BOUNDS.maxLat
    /\ lng >= UK_BOUNDS.minLng /\ lng <= UK_BOUNDS.maxLng

Pt(la, ln) == [lat |-> la, lng |-> ln]

Newmarket      == Pt(5224, 41)
NearNewmarket  == Pt(5228, 41)
SouthNewmarket == Pt(5220, 41)
Leicester      == Pt(5263, -113)
Birmingham     == Pt(5248, -190)
Leeds          == Pt(5380, -155)
EnvCorner      == Pt(4980, -865)
JustSouth      == Pt(4979, 41)
Paris          == Pt(4885, 235)
NaNPoint       == Pt(NaN, NaN)

Places == << Newmarket, NearNewmarket, SouthNewmarket, Leicester, Birmingham,
             Leeds, EnvCorner, JustSouth, Paris >>

PlaceIndex(p) == CHOOSE i \in 1..Len(Places) : Places[i] = p

\* haversineMetersSimple on the model's places, rounded to the metre
\* (R = 6371000, the formula of the source evaluated in double precision).
HaversineTable ==
    << << 0, 4448, 4448, 113044, 159111, 217415, 688745, 272428, 401065 >>,
       << 4448, 0, 8896, 111369, 158355, 213847, 690250, 276875, 405227 >>,
       << 4448, 8896, 0, 114867, 159986, 221015, 687265, 267980, 396908 >>,
       << 113044, 111369, 114867, 0, 54663, 133069, 610592, 333497, 486316 >>,
       << 159111, 158355, 159986, 54663, 0, 148622, 556945, 339733, 502456 >>,
       << 217415, 213847, 221015, 133069, 148622, 0, 659876, 465772, 613285 >>,
       << 688745, 690250, 687265, 610592, 556945, 659876, 0, 649923, 803429 >>,
       << 272428, 276875, 267980, 333497, 339733, 465772, 649923, 0, 175196 >>,
       << 401065, 405227, 396908, 486316, 502456, 613285, 803429, 175196, 0 >> >>

haversineMetersSimple(a, b) == HaversineTable[PlaceIndex(a)][PlaceIndex(b)]

\* ------------------------------------------------------------------------
\* Text: a label is a sequence of characters
\* ------------------------------------------------------------------------
UpperCase == << "A","B","C","D","E","F","G","H","I","J","K","L","M",
                "N","O","P","Q","R","S","T","U","V","W","X","Y","Z" >>
LowerCase == << "a","b","c","d","e","f","g","h","i","j","k","l","m",
                "n","o","p","q","r","s","t","u","v","w","x","y","z" >>

isSpace(c) == c = " "

toLowerChar(c) ==
    IF \E i \in 1..26 : UpperCase[i] = c
    THEN LowerCase[CHOOSE i \in 1..26 : UpperCase[i] = c]
    ELSE c

\* the one element of a set of one: its value is computed once and named
Only(S) == CHOOSE x \in S : TRUE

toLowerCase(s) == Only({ [i \in 1..Len(x) |-> toLowerChar(x[i])] : x \in {s} })

\* String.prototype.trim
trim(s) ==
    Only({ IF \A i \in 1..Len(x) : isSpace(x[i]) THEN << >>
           ELSE LET a == CHOOSE i \in 1..Len(x) :
                             ~isSpace(x[i]) /\ \A j \in 1..(i-1) : isSpace(x[j])
                    b == CHOOSE i \in 1..Len(x) :
                             ~isSpace(x[i]) /\ \A j \in (i+1)..Len(x) : isSpace(x[j])
                IN SubSeq(x, a, b)
           : x \in {s} })

\* a cache key that is the label as given
geocodeKey_raw(label) == label

\* line 178: the cache key of geocodePlace, String(label || "").trim().toLowerCase()
geocodeKey(label) == toLowerCase(trim(label))

\* ------------------------------------------------------------------------
\* LabelClassifier: the regular expressions of lines 107-133, on characters
\* ------------------------------------------------------------------------
Letters == { UpperCase[i] : i \in 1..26 } \cup { LowerCase[i] : i \in 1..26 }
Digits == {"0", "1", "2", "3", "4", "5", "6", "7", "8", "9"}

\* \w
WordChars == Letters \cup Digits \cup {"_"}

wordCharAt(s, i) == i >= 1 /\ i <= Len(s) /\ s[i] \in WordChars

\* \b between the characters i and i+1 (0 and Len(s) are the two ends)
boundaryAfter(s, i) == wordCharAt(s, i) # wordCharAt(s, i + 1)

\* s holds n characters of the class from position p on
lettersAt(s, p, n) == p + n - 1 <= Len(s) /\ \A j \in p..(p + n - 1) : s[j] \in Letters
digitsAt(s, p, n) == p + n - 1 <= Len(s) /\ \A j \in p..(p + n - 1) : s[j] \in Digits
spacesAt(s, p, n) == p + n - 1 <= Len(s) /\ \A j \in p..(p + n - 1) : isSpace(s[j])

\* the lower-case word w stands at position p of s, whatever the case
wordAt(s, p, w) ==
    /\ p >= 1 /\ p + Len(w) - 1 <= Len(s)
    /\ \A j \in 1..Len(w) : toLowerChar(s[p + j - 1]) = w[j]

\* /\bw\b/i
hasWord(s, w) ==
    \E p \in 1..Len(s) :
        wordAt(s, p, w) /\ boundaryAfter(s, p - 1) /\ boundaryAfter(s, p + Len(w) - 1)

\* /^w\b/i
startsWithWord(s, w) == wordAt(s, 1, w) /\ boundaryAfter(s, Len(w))

\* line 111: /\b[A-Z]{1,2}\d{1,2}[A-Z]?\s*\d[A-Z]{2}\b/i
hasPostcode(s) ==
    \E p \in 1..Len(s) :
       /\ boundaryAfter(s, p - 1)
       /\ \E a \in 1..2 :
             /\ lettersAt(s, p, a)
             /\ \E d \in 1..2 :
                   /\ digitsAt(s, p + a, d)
                   /\ \E o \in 0..1 :
                         /\ lettersAt(s, p + a + d, o)
                         /\ \E w \in 0..Len(s) :
                               LET q == p + a + d + o + w
                               IN /\ spacesAt(s, p + a + d + o, w)
                                  /\ digitsAt(s, q, 1) /\ lettersAt(s, q + 1, 2)
                                  /\ boundaryAfter(s, q + 2)

\* the words of the regular expressions
W_AT == << "a", "t" >>
W_TAKE == << "t", "a", "k", "e" >>
W_THEN == << "t", "h", "e", "n" >>
W_TURN == << "t", "u", "r", "n" >>
W_CONTINUE == << "c", "o", "n", "t", "i", "n", "u", "e" >>
W_BEAR == << "b", "e", "a", "r" >>
W_KEEP == << "k", "e", "e", "p" >>
W_FOLLOW == << "f", "o", "l", "l", "o", "w" >>
W_EXIT == << "e", "x", "i", "t" >>
W_SLIP == << "s", "l", "i", "p" >>
W_ROUNDABOUT == << "r", "o", "u", "n", "d", "a", "b", "o", "u", "t" >>
W_FLYOVER == << "f", "l", "y", "o", "v", "e", "r" >>
W_1ST == << "1", "s", "t" >>
W_2ND == << "2", "n", "d" >>
W_3RD == << "3", "r", "d" >>
W_4TH == << "4", "t", "h" >>
W_5TH == << "5", "t", "h" >>
W_ONTO == << "o", "n", "t", "o" >>
W_INTO == << "i", "n", "t", "o" >>
W_JN == << "j", "n" >>

MotionVerbs ==
    { W_AT, W_TAKE, W_THEN, W_TURN, W_CONTINUE, W_BEAR, W_KEEP, W_FOLLOW, W_EXIT, W_SLIP }

JunctionWords ==
    { W_ROUNDABOUT, W_FLYOVER, W_1ST, W_2ND, W_3RD, W_4TH, W_5TH }

ActionWords == { W_EXIT, W_TAKE, W_ONTO, W_INTO }

Ordinals == { W_1ST, W_2ND, W_3RD, W_4TH, W_5TH }

JunctionNames == { W_ROUNDABOUT, W_FLYOVER }

\* the classifier whose last rule asks for an ordinal, a roundabout or
\* flyover word and an action word, all three
isInstructionLikeLabel_allThree(v) ==
    \E s \in {trim(v)} :
       IF s = << >> THEN TRUE
       ELSE IF hasPostcode(s) THEN FALSE
       ELSE IF \E w \in MotionVerbs : startsWithWord(s, w) THEN TRUE
       ELSE IF (\E w \in Ordinals : hasWord(s, w))
                /\ (\E w \in JunctionNames : hasWord(s, w))
                /\ (\E w \in ActionWords : hasWord(s, w)) THEN TRUE
       ELSE FALSE

\* lines 107-117
isInstructionLikeLabel(v) ==
    \E s \in {trim(v)} :
       IF s = << >> THEN TRUE
       ELSE IF hasPostcode(s) THEN FALSE
       ELSE IF \E w \in MotionVerbs : startsWithWord(s, w) THEN TRUE
       ELSE IF (\E w \in JunctionWords : hasWord(s, w))
                /\ (\E w \in ActionWords : hasWord(s, w)) THEN TRUE
       ELSE FALSE

isAorM(c) == c \in {"A", "M", "a", "m"}

\* the length of the run of digits that starts at p
digitRun(s, p) ==
    IF p > Len(s) \/ s[p] \notin Digits THEN 0
    ELSE CHOOSE n \in 1..(Len(s) - p + 1) :
            digitsAt(s, p, n) /\ (p + n > Len(s) \/ s[p + n] \notin Digits)

spaceRun(s, p) ==
    IF p > Len(s) \/ ~isSpace(s[p]) THEN 0
    ELSE CHOOSE n \in 1..(Len(s) - p + 1) :
            spacesAt(s, p, n) /\ (p + n > Len(s) \/ ~isSpace(s[p + n]))

NoSuffix == [ok |-> FALSE, from |-> 0, to |-> 0]

\* ([AM]?\d{1,3}) tried at position g: [ok, from, to] with from..to its characters
roadGroupAt(s, g) ==
    Only({ IF n >= 1 /\ n <= 3
           THEN [ok |-> TRUE, from |-> g, to |-> g + pre + n - 1]
           ELSE NoSuffix
           : << pre, n >> \in { << q, digitRun(s, g + q) >> :
                                q \in {IF g <= Len(s) /\ isAorM(s[g]) THEN 1 ELSE 0} } })

\* (?:\s*\/\s*([AM]?\d{1,3}))? tried at position p
roadSuffixAt(s, p) ==
    Only({ IF slash <= Len(s) /\ s[slash] = "/"
           THEN roadGroupAt(s, slash + 1 + spaceRun(s, slash + 1))
           ELSE NoSuffix
           : slash \in {p + spaceRun(s, p)} })

\* [AM]\d{1,3} at position p (the digits are the whole run: a \b or the
\* suffix must follow them)
roadHeadAt(s, p) == p <= Len(s) /\ isAorM(s[p]) /\ digitRun(s, p + 1) \in 1..3

\* line 121 matches at position p
roadTokenAt(s, p) ==
    /\ boundaryAfter(s, p - 1) /\ roadHeadAt(s, p)
    /\ \E e \in {p + digitRun(s, p + 1)} :
          \/ boundaryAfter(s, e)
          \/ \E x \in {roadSuffixAt(s, e + 1)} : x.ok /\ boundaryAfter(s, x.to)

toUpperChar(c) ==
    IF \E i \in 1..26 : LowerCase[i] = c
    THEN UpperCase[CHOOSE i \in 1..26 : LowerCase[i] = c]
    ELSE c

toUpperCase(s) == Only({ [i \in 1..Len(x) |-> toUpperChar(x[i])] : x \in {s} })

\* lines 124-125: the text of the match at position p
roadTokenText(s, p) ==
    Only({ IF x.ok /\ boundaryAfter(s, x.to)
           THEN toUpperCase(SubSeq(s, p, e)) \o << "/" >>
                   \o toUpperCase(SubSeq(s, x.from, x.to))
           ELSE toUpperCase(SubSeq(s, p, e))
           : << e, x >> \in { << q, roadSuffixAt(s, q + 1) >> :
                              q \in {p + digitRun(s, p + 1)} } })

\* lines 119-126: the leftmost match
extractRoadToken(v) ==
    Only({ IF P = {} THEN << >>
           ELSE roadTokenText(s, CHOOSE p \in P : \A r \in P : p <= r)
           : << s, P >> \in { << x, { p \in 1..Len(x) : roadTokenAt(x, p) } >> :
                              x \in {v} } })

\* lines 128-133: /^[AM]\d{1,3}(?:\s*\/\s*[AM]?\d{1,3})?$/i on the trimmed label
isRoadOnlyLabel(v) ==
    \E s \in {trim(v)} :
       /\ s # << >>
       /\ roadHeadAt(s, 1)
       /\ \E e \in {1 + digitRun(s, 2)} :
             \/ e = Len(s)
             \/ \E x \in {roadSuffixAt(s, e + 1)} : x.ok /\ x.to = Len(s)

\* lines 627-631
looksLikeRoadOnly(v) ==
    \E s \in {trim(v)} :
       IF s = << >> THEN TRUE
       ELSE \/ isAorM(s[1]) /\ \E n \in 1..Len(s) :
                  digitsAt(s, 2, n) /\ boundaryAfter(s, 1 + n)
            \/ /\ s[1] \in {"A", "a"}
               /\ \E n \in 1..Len(s) :
                    /\ digitsAt(s, 2, n)
                    /\ \E sl \in 0..1, aa \in 0..1 :
                         /\ (sl = 1 => (2 + n <= Len(s) /\ s[2 + n] = "/"))
                         /\ (aa = 1 => (2 + n + sl <= Len(s)
                                        /\ s[2 + n + sl] \in {"A", "a"}))
                         /\ \E m \in 0..Len(s) :
                              /\ digitsAt(s, 2 + n + sl + aa, m)
                              /\ boundaryAfter(s, 1 + n + sl + aa + m)
            \/ hasWord(s, W_JN)

\* ------------------------------------------------------------------------
\* State
\* ------------------------------------------------------------------------
VARIABLES
    geoStore,   \* localStorage[LS_KEYS.geocode]: << >> (no item) or << [v, e] >>
    gc,         \* the geocodePlace / resolveEndpoint call in progress
    glast,      \* << >> or << summary of the call completed before this one >>
    gcalls,     \* calls started so far
    osrmStore,  \* localStorage[LS_KEYS.osrm]: the entries << [k, v] >> in key order
    oc,         \* the osrmRoute call in progress
    ocalls,     \* osrmRoute calls started so far
    route,      \* << >> or << the route document drawRoutesOnMap was asked to draw >>
    build,      \* drawRoutesOnMap: its position, its locals, what it drew and asked for
    preview,    \* << >> or << the last resolveEndpoint call of the admin preview >>
    labelled,   \* << >> or << a label and, once classified, what isInstructionLikeLabel said >>
    flights,    \* the geocodePlace and osrmRoute calls that overlap, in the order they began
    page,       \* the public map: the selection, __loading, the route layer, the running build
    lstStore,   \* localStorage item hgv.lst.routes with the last save and get of LST_STORE
    admin       \* the admin route editor: the stored segments, draw and pick state, the preview

geoVars == << geoStore, gc, glast, gcalls >>

osrmVars == << osrmStore, oc, ocalls >>

buildVars == << route, build, preview >>

uiVars == << page, admin, lstStore >>

otherVars == << labelled, flights, page, admin, lstStore >>

vars == << geoStore, gc, glast, gcalls, osrmStore, oc, ocalls, route, build, preview,
          labelled, flights, page, admin, lstStore >>

None == << >>
Some(x) == << x >>

NoEntries == [x \in {} |-> Newmarket]

\* drawRoutesOnMap has not been called (lines 559-575 give the locals their
\* first values when it is)
IdleBuild ==
    [pc |-> "idle", i |-> 0, prev |-> None, failedSegments |-> 0,
     a |-> None, b |-> None, segLog |-> << >>, calls |-> << >>, routed |-> << >>,
     fallback |-> None, start |-> None, end |-> None, status |-> ""]

\* no label is being classified and no calls overlap
\* the public map is not open
IdlePage ==
    [selected |-> {}, loading |-> FALSE, builds |-> 0, ids |-> << >>, at |-> 0,
     stalled |-> FALSE, layer |-> {}, changes |-> 0, status |-> ""]

\* the admin route editor is not open
\* a text field of the editor: a typed text, nothing, or the placeholder
\* `Pinned (${lat.toFixed(5)}, ${lng.toFixed(5)})` of admin.js lines 245, 297
Text(t) == [text |-> t, lat |-> 0, lng |-> 0]
NoText == Text("")
PinnedText(p) == [text |-> "Pinned", lat |-> p.lat, lng |-> p.lng]

EmptyStore ==
    [segs |-> << >>, startLabel |-> NoText, endLabel |-> NoText,
     startCoords |-> None, endCoords |-> None]

IdleAdmin ==
    [open |-> FALSE, routes |-> EmptyStore,
     enabled |-> FALSE, chain |-> FALSE, snap |-> FALSE,
     start |-> None, pick |-> None, stale |-> FALSE,
     handlers |-> << >>, drawn |-> << >>, quiet |-> TRUE, acts |-> 0,
     edit |-> 0, gen |-> 0, layer |-> << >>, previews |-> << >>, runs |-> 0,
     pstatus |-> "",
     tempLine |-> FALSE, snapKey |-> None, snapTimer |-> 0, timers |-> << >>,
     hovers |-> << >>, requests |-> 0]

\* nothing stored under hgv.lst.routes, no call of LST_STORE yet
IdleStore == [item |-> None, arg |-> None, got |-> None, ops |-> 0]

UiIdle == page = IdlePage /\ admin = IdleAdmin /\ lstStore = IdleStore

OtherIdle == labelled = None /\ flights = << >> /\ UiIdle

BuildIdle ==
    /\ route = None
    /\ build = IdleBuild
    /\ preview = None
    /\ OtherIdle

\* ------------------------------------------------------------------------
\* GeocodeCache: geocodePlace
\* ------------------------------------------------------------------------
\* lines 173-176: a stored cache of another format version is removed
storeAfterVersionCheck(store) ==
    IF store # None /\ store[1].v # GEOCODE_CACHE_VERSION THEN None ELSE store

\* a cache read that ignores the format version
freshCacheOf_anyVersion(store) ==
    IF store # None THEN store[1]
    ELSE [v |-> GEOCODE_CACHE_VERSION, e |-> NoEntries]

\* line 177
freshCacheOf(store) ==
    IF store # None /\ store[1].v = GEOCODE_CACHE_VERSION THEN store[1]
    ELSE [v |-> GEOCODE_CACHE_VERSION, e |-> NoEntries]

withEntry(cache, k, out) ==
    [cache EXCEPT !.e = [x \in (DOMAIN cache.e) \cup {k} |->
                              IF x = k THEN out ELSE cache.e[x]]]

withoutEntry(cache, k) ==
    [cache EXCEPT !.e = [x \in (DOMAIN cache.e) \ {k} |-> cache.e[x]]]

\* a hint that is never taken for a point
isFiniteHint_never(hint) == FALSE

\* lines 230 and 286: hint && Number.isFinite(hint.lat) && Number.isFinite(hint.lng)
isFiniteHint(hint) ==
    hint # None /\ isFinite(hint[1].lat) /\ isFinite(hint[1].lng)

Infinity == 99999999
MAX_HINT_DISTANCE_M == 120000

\* lines 231-238: the loop that keeps the closest candidate (first wins a tie)
RECURSIVE closestLoop(_, _, _, _, _)
closestLoop(candidates, hint, i, best, bestD) ==
    IF i > Len(candidates) THEN [best |-> best, bestD |-> bestD]
    ELSE LET d == haversineMetersSimple(hint, candidates[i])
         IN IF d < bestD
            THEN closestLoop(candidates, hint, i + 1, candidates[i], d)
            ELSE closestLoop(candidates, hint, i + 1, best, bestD)

inUkPoint(f) == inUkBounds(f.lat, f.lng)

\* a lookup that takes the first candidate instead of the closest
tryFetch_first(resp, hint) ==
    IF resp.status # "ok" \/ resp.feats = << >> THEN None
    ELSE LET candidates == SelectSeq(resp.feats, inUkPoint)
         IN IF candidates = << >> THEN None
            ELSE IF isFiniteHint(hint)
                 THEN IF haversineMetersSimple(hint[1], candidates[1]) > MAX_HINT_DISTANCE_M
                      THEN None ELSE Some(candidates[1])
                 ELSE Some(candidates[1])

\* lines 212-248: the feature chosen from one place-search response, or null
tryFetch(resp, hint) ==
    IF resp.status # "ok" \/ resp.feats = << >> THEN None
    ELSE LET candidates == SelectSeq(resp.feats, inUkPoint)
         IN IF candidates = << >> THEN None
            ELSE IF isFiniteHint(hint)
                 THEN LET r == closestLoop(candidates, hint[1], 1, candidates[1], Infinity)
                      IN IF r.bestD > MAX_HINT_DISTANCE_M THEN None ELSE Some(r.best)
                 ELSE Some(candidates[1])

IdleCall ==
    [pc |-> "idle", via |-> "", label |-> << >>, k |-> << >>, hint |-> None,
     fresh |-> [v |-> GEOCODE_CACHE_VERSION, e |-> NoEntries],
     readV |-> 0, nreq |-> 0, resp |-> None,
     ret |-> None, err |-> "", path |-> ""]

Summary(c) == [label |-> c.label, k |-> c.k, ok |-> c.ret # None, nreq |-> c.nreq, ret |-> c.ret,
               path |-> c.path]

\* lines 172-187: the synchronous head of geocodePlace(label, hint), as the
\* pair << call record, store >>
geocodeHead(store, via, label, hint) ==
    LET st1   == storeAfterVersionCheck(store)
        fresh == freshCacheOf(store)
        k     == geocodeKey(label)
        base  == [IdleCall EXCEPT !.via = via, !.label = label, !.k = k, !.hint = hint,
                                  !.fresh = fresh,
                                  !.readV = IF store = None THEN 0 ELSE store[1].v]
    IN IF k = << >>
       THEN << [base EXCEPT !.pc = "done", !.err = "Missing geocode label"], st1 >>
       ELSE IF k \in DOMAIN fresh.e
            THEN IF inUkBounds(fresh.e[k].lat, fresh.e[k].lng)
                 THEN << [base EXCEPT !.pc = "done", !.ret = Some(fresh.e[k]),
                                      !.path = "cache"], st1 >>
                 ELSE << [base EXCEPT !.pc = "throttle",
                                      !.fresh = withoutEntry(fresh, k)],
                         Some(withoutEntry(fresh, k)) >>
            ELSE << [base EXCEPT !.pc = "throttle"], st1 >>

CanCall == gc.pc \in {"idle", "done"} /\ gcalls < MaxCalls

Remember == IF gc.pc = "done" THEN Some(Summary(gc)) ELSE glast

GeocodeCall(label, hint) ==
    /\ CanCall
    /\ LET h == geocodeHead(geoStore, "geocodePlace", label, hint)
       IN gc' = h[1] /\ geoStore' = h[2]
    /\ glast' = Remember
    /\ gcalls' = gcalls + 1
    /\ UNCHANGED << osrmVars, buildVars, otherVars >>

\* line 196: the throttle elapses and tryFetch(`${label}, UK`) issues its request
GeocodeThrottle ==
    /\ gc.pc = "throttle"
    /\ gc' = [gc EXCEPT !.pc = "fetch1", !.nreq = 1]
    /\ UNCHANGED << geoStore, glast, gcalls >>
    /\ UNCHANGED << osrmVars, buildVars, otherVars >>

\* lines 254-267: the tail after a hit
geocodeTail(c, hit) ==
    LET out == Pt(hit.lat, hit.lng)
    IN IF ~inUkBounds(out.lat, out.lng)
       THEN << [c EXCEPT !.pc = "done", !.err = "Geocode out of UK bounds"], None, FALSE >>
       ELSE << [c EXCEPT !.pc = "done", !.ret = Some(out), !.path = "fresh",
                         !.fresh = withEntry(c.fresh, c.k, out)],
               Some(withEntry(c.fresh, c.k, out)), TRUE >>

\* lines 215-251: a place-search response arrives
GeocodeResponse(resp) ==
    /\ gc.pc \in {"fetch1", "fetch2"}
    /\ LET hit == tryFetch(resp, gc.hint)
           c   == [gc EXCEPT !.resp = Some(resp)]
       IN IF hit # None
          THEN LET t == geocodeTail(c, hit[1])
               IN /\ gc' = t[1]
                  /\ geoStore' = IF t[3] THEN t[2] ELSE geoStore
          ELSE IF gc.pc = "fetch1"
               THEN /\ gc' = [c EXCEPT !.pc = "fetch2", !.nreq = 2]
                    /\ UNCHANGED geoStore
               ELSE /\ gc' = [c EXCEPT !.pc = "done", !.err = "No match"]
                    /\ UNCHANGED geoStore
    /\ UNCHANGED << glast, gcalls >>
    /\ UNCHANGED << osrmVars, buildVars, otherVars >>

\* ------------------------------------------------------------------------
\* AnchorResolver: resolveOverride, resolveEndpoint
\* ------------------------------------------------------------------------
Number(coords, f) == IF coords = None THEN NaN ELSE coords[1][f]

\* lines 270-275
resolveOverride(coords) ==
    LET lat == Number(coords, "lat")
        lng == Number(coords, "lng")
    IN IF inUkBounds(lat, lng) THEN Some(Pt(lat, lng)) ELSE None

segCoords(seg, key) == IF key = "from" THEN seg.fromCoords ELSE seg.toCoords
segLabel(seg, key) == IF key = "from" THEN seg.from ELSE seg.to

\* lines 277-290
ResolveEndpointCall(seg, key, hint, labelOverride) ==
    /\ CanCall
    /\ LET override == resolveOverride(segCoords(seg, key))
           raw == trim(IF labelOverride # None THEN labelOverride[1]
                       ELSE segLabel(seg, key))
           base == [IdleCall EXCEPT !.via = "resolveEndpoint", !.hint = hint]
       IN IF override # None
          THEN /\ gc' = [base EXCEPT !.pc = "done", !.ret = override, !.path = "override"]
               /\ UNCHANGED geoStore
          ELSE IF raw = << >>
               THEN /\ gc' = IF isFiniteHint(hint)
                             THEN [base EXCEPT !.pc = "done", !.ret = hint, !.path = "hint"]
                             ELSE [base EXCEPT !.pc = "done", !.err = "Missing geocode label"]
                    /\ UNCHANGED geoStore
               ELSE LET h == geocodeHead(geoStore, "resolveEndpoint", raw, hint)
                    IN gc' = h[1] /\ geoStore' = h[2]
    /\ glast' = Remember
    /\ gcalls' = gcalls + 1
    /\ UNCHANGED << osrmVars, buildVars, otherVars >>

\* ------------------------------------------------------------------------
\* Inputs of the geocode specification
\* ------------------------------------------------------------------------
L_Ely      == << "E", "l", "y" >>
L_elyPad   == << " ", "e", "l", "y", " " >>
L_M6       == << "M", "6" >>
L_Empty    == << >>
L_Blank    == << " " >>

GeoLabels == { L_Ely, L_elyPad, L_M6, L_Blank }

Hints == { None, Some(Newmarket), Some(Paris), Some(NaNPoint) }

Candidates == { NearNewmarket, Leicester, Leeds, JustSouth }

\* feature lists of a place-search response: none, one or two distinct features
FeatureLists ==
    { << >> } \cup { << a >> : a \in Candidates }
    \cup { p \in { << a, b >> : a \in Candidates, b \in Candidates } : p[1] # p[2] }

\* fetch rejected, HTTP status not ok, body not JSON, or a body with features
Responses ==
    { [status |-> st, feats |-> << >>] : st \in {"reject", "notok", "badjson"} }
    \cup { [status |-> "ok", feats |-> f] : f \in FeatureLists }

Seg(f, t, fc, tc) == [from |-> f, to |-> t, fromCoords |-> fc, toCoords |-> tc]

ResolveSegs ==
    { Seg(L_Ely, L_Empty, None, Some(EnvCorner)),
      Seg(L_Blank, L_M6, Some(JustSouth), Some(NaNPoint)) }

LabelOverrides == { None, Some(L_elyPad) }

StoredCache(v, k, p) == Some([v |-> v, e |-> [x \in {k} |-> p]])

\* what localStorage may hold when the page loads: nothing, a cache written by
\* an older format version, a current cache, a current cache holding an entry
\* the bounds check no longer accepts (the case lines 185-186 purge)
InitialGeoStores ==
    { None,
      StoredCache(1, geocodeKey(L_Ely), NearNewmarket),
      StoredCache(GEOCODE_CACHE_VERSION, geocodeKey(L_Ely), Leeds),
      StoredCache(GEOCODE_CACHE_VERSION, geocodeKey(L_Ely), Paris) }

GeoInit ==
    /\ geoStore \in InitialGeoStores
    /\ gc = IdleCall
    /\ glast = None
    /\ gcalls = 0
    /\ osrmStore = << >>
    /\ oc = [pc |-> "idle", k |-> << >>, cache |-> << >>, seen |-> None,
             nreq |-> 0, resp |-> None, ret |-> None, path |-> ""]
    /\ ocalls = 0
    /\ BuildIdle

GeoNext ==
    \/ \E label \in GeoLabels, hint \in Hints : GeocodeCall(label, hint)
    \/ \E seg \in ResolveSegs, key \in {"from", "to"}, hint \in Hints,
          labelOverride \in LabelOverrides :
            ResolveEndpointCall(seg, key, hint, labelOverride)
    \/ GeocodeThrottle
    \/ \E resp \in Responses : GeocodeResponse(resp)

SpecGeo == GeoInit /\ [][GeoNext]_vars

\* the same program starting with nothing in localStorage
GeoInitEmpty ==
    /\ geoStore = None
    /\ gc = IdleCall
    /\ glast = None
    /\ gcalls = 0
    /\ osrmStore = << >>
    /\ oc = [pc |-> "idle", k |-> << >>, cache |-> << >>, seen |-> None,
             nreq |-> 0, resp |-> None, ret |-> None, path |-> ""]
    /\ ocalls = 0
    /\ BuildIdle

SpecGeoEmpty == GeoInitEmpty /\ [][GeoNext]_vars

\* ------------------------------------------------------------------------
\* RouteCache: osrmRoute
\* ------------------------------------------------------------------------
\* A polyline is a sequence of elements << lng, lat >>; an element that is
\* not an array of two numbers is << >> or holds NaN.
OSRM_CACHE_MAX == 250
OSRM_CACHE_EVICT == 50

\* line 294: the cache key, the four coordinates printed with toFixed(6)
\* (exact on hundredths of a degree)
osrmKey(from, to) == << from.lng, from.lat, to.lng, to.lat >>

cacheIndex(cache, k) ==
    IF \E i \in 1..Len(cache) : cache[i].k = k
    THEN CHOOSE i \in 1..Len(cache) : cache[i].k = k
    ELSE 0

cacheKeys(cache) == { cache[i].k : i \in 1..Len(cache) }

\* delete cache[k]
cacheDelete(cache, k) ==
    LET keep(e) == e.k # k IN SelectSeq(cache, keep)

\* cache[k] = v: an existing key keeps its place, a new key goes last
cacheSet(cache, k, v) ==
    IF cacheIndex(cache, k) # 0
    THEN [cache EXCEPT ![cacheIndex(cache, k)] = [k |-> k, v |-> v]]
    ELSE Append(cache, [k |-> k, v |-> v])

\* line 297
looksSane(coords) ==
    /\ Len(coords) >= 2
    /\ \A i \in 1..Len(coords) :
          /\ Len(coords[i]) >= 2
          /\ isFinite(coords[i][1]) /\ isFinite(coords[i][2])

Min(a, b) == IF a < b THEN a ELSE b
Max(a, b) == IF a > b THEN a ELSE b

\* lines 300-308: the bounding box of the polyline
RECURSIVE boundingBox(_, _, _)
boundingBox(coords, i, box) ==
    IF i > Len(coords) THEN box
    ELSE boundingBox(coords, i + 1,
            [minLat |-> Min(box.minLat, coords[i][2]),
             maxLat |-> Max(box.maxLat, coords[i][2]),
             minLng |-> Min(box.minLng, coords[i][1]),
             maxLng |-> Max(box.maxLng, coords[i][1])])

\* a hit that checks the shape of the polyline and not where it lies
cachedRouteOk_noBounds(coords) == looksSane(coords)

\* lines 297-310: a cached polyline is reused
cachedRouteOk(coords) ==
    /\ looksSane(coords)
    /\ LET box == boundingBox(coords, 1,
                    [minLat |-> 9000, maxLat |-> -9000,
                     minLng |-> 18000, maxLng |-> -18000])
       IN box.minLat > 4500 /\ box.maxLat < 6200
          /\ box.minLng > -1200 /\ box.maxLng < 500

\* an insert that never evicts
evictOldest_never(cache) == cache

\* lines 328-331: Object.keys is in insertion order
evictOldest(cache) ==
    IF Len(cache) > OSRM_CACHE_MAX
    THEN SubSeq(cache, OSRM_CACHE_EVICT + 1, Len(cache))
    ELSE cache

IdleRoute ==
    [pc |-> "idle", k |-> << >>, cache |-> << >>, seen |-> None,
     nreq |-> 0, resp |-> None, ret |-> None, path |-> ""]

\* lines 293-313: the synchronous head of osrmRoute, as << call record, store >>
osrmHead(store, from, to) ==
    LET cache == store
        k     == osrmKey(from, to)
        i     == cacheIndex(cache, k)
        base  == [IdleRoute EXCEPT !.k = k, !.cache = cache,
                      !.seen = IF i = 0 THEN None ELSE Some(cache[i].v)]
    IN IF i # 0
       THEN IF cachedRouteOk(cache[i].v)
            THEN << [base EXCEPT !.pc = "done", !.ret = Some(cache[i].v),
                                 !.path = "cache"], store >>
            ELSE << [base EXCEPT !.pc = "throttle", !.cache = cacheDelete(cache, k)],
                    cacheDelete(cache, k) >>
       ELSE << [base EXCEPT !.pc = "throttle"], store >>

OsrmCall(from, to) ==
    /\ oc.pc \in {"idle", "done"}
    /\ LET h == osrmHead(osrmStore, from, to)
       IN oc' = h[1] /\ osrmStore' = h[2]
    /\ UNCHANGED << geoVars, buildVars, otherVars >>

\* line 316: the throttle elapses and the routing request is issued
OsrmThrottle ==
    /\ oc.pc = "throttle"
    /\ oc' = [oc EXCEPT !.pc = "fetch", !.nreq = 1]
    /\ UNCHANGED osrmStore
    /\ UNCHANGED << geoVars, buildVars, otherVars >>

\* a payload test that accepts any array
payloadOk_anyArray(resp) == resp.status = "ok" /\ resp.coords # None

\* lines 320-324: the response carries an array of at least two elements
payloadOk(resp) ==
    resp.status = "ok" /\ resp.coords # None /\ Len(resp.coords[1]) >= 2

\* lines 320-333: the routing response arrives
OsrmResponse(resp) ==
    /\ oc.pc = "fetch"
    /\ IF ~payloadOk(resp)
       THEN /\ oc' = [oc EXCEPT !.pc = "done", !.resp = Some(resp),
                                !.ret = None, !.path = "null"]
            /\ UNCHANGED osrmStore
       ELSE LET cache == evictOldest(cacheSet(oc.cache, oc.k, resp.coords[1]))
            IN /\ oc' = [oc EXCEPT !.pc = "done", !.resp = Some(resp),
                                   !.cache = cache,
                                   !.ret = resp.coords, !.path = "fresh"]
               /\ osrmStore' = cache
    /\ UNCHANGED << geoVars, buildVars, otherVars >>

\* ------------------------------------------------------------------------
\* Inputs of the route-cache specification
\* ------------------------------------------------------------------------
MaxRouteCalls == 3

LngLat(p) == << p.lng, p.lat >>

RouteGood      == << LngLat(Newmarket), LngLat(Leicester) >>
RouteOnEdge    == << LngLat(Newmarket), << 500, 5224 >> >>
RouteOutside   == << LngLat(Newmarket), << 0, 4400 >> >>
RouteNonFinite == << LngLat(Newmarket), << NaN, 5263 >> >>
RouteNonArray  == << LngLat(Newmarket), << >> >>
RouteShort     == << LngLat(Newmarket) >>

RouteResponses ==
    { [status |-> st, coords |-> None] : st \in {"reject", "notok", "badjson", "ok"} }
    \cup { [status |-> "ok", coords |-> Some(c)] :
             c \in { << >>, RouteShort, RouteGood, RouteOnEdge, RouteOutside,
                     RouteNonFinite, RouteNonArray } }

RoutePairs == { << Newmarket, Leicester >>, << Leicester, Newmarket >> }

\* what localStorage may hold when the page loads: nothing, or an entry that
\* the read checks reject (lines 297-312 exist for these)
InitialOsrmStores ==
    { << >>,
      << [k |-> osrmKey(Newmarket, Leicester), v |-> RouteShort] >> }

GeoIdle ==
    /\ geoStore = None
    /\ gc = IdleCall
    /\ glast = None
    /\ gcalls = 0

OsrmIdle ==
    /\ osrmStore = << >>
    /\ oc = IdleRoute
    /\ ocalls = 0

OsrmInit ==
    /\ GeoIdle
    /\ osrmStore \in InitialOsrmStores
    /\ oc = IdleRoute
    /\ ocalls = 0
    /\ BuildIdle

\* a caller asks for a route; the model stops after MaxRouteCalls calls
RouteCall(from, to) ==
    /\ ocalls < MaxRouteCalls
    /\ OsrmCall(from, to)
    /\ ocalls' = ocalls + 1

RouteThrottle == OsrmThrottle /\ UNCHANGED ocalls

RouteResponse(resp) == OsrmResponse(resp) /\ UNCHANGED ocalls

OsrmNext ==
    \/ \E p \in RoutePairs : RouteCall(p[1], p[2])
    \/ RouteThrottle
    \/ \E resp \in RouteResponses : RouteResponse(resp)

SpecOsrm == OsrmInit /\ [][OsrmNext]_vars

\* the same program starting with an empty route cache
OsrmInitEmpty == GeoIdle /\ OsrmIdle /\ BuildIdle

SpecOsrmEmpty == OsrmInitEmpty /\ [][OsrmNext]_vars

\* ------------------------------------------------------------------------
\* The route cache filling up: callers ask for ever new pairs of points
\* (Newmarket to the n-th point of a line), or again for the oldest or the
\* newest pair the cache holds; the service answers or fails.
\* ------------------------------------------------------------------------
MaxRouteKeys == 252

LinePoint(n) == Pt(5000 + n, 41)

LineIndex(k) == k[4] - 5000

\* the number of the next pair no caller has asked for with success
NextLineIndex ==
    IF osrmStore = << >> THEN 1 ELSE LineIndex(osrmStore[Len(osrmStore)].k) + 1

FillFresh ==
    /\ NextLineIndex <= MaxRouteKeys
    /\ OsrmCall(Newmarket, LinePoint(NextLineIndex))
    /\ UNCHANGED ocalls

FillAgain ==
    /\ osrmStore # << >>
    /\ \E i \in {1, Len(osrmStore)} :
          OsrmCall(Newmarket, LinePoint(LineIndex(osrmStore[i].k)))
    /\ UNCHANGED ocalls

FillResponses ==
    { [status |-> "reject", coords |-> None],
      [status |-> "ok", coords |-> Some(RouteGood)] }

FillNext ==
    \/ FillFresh
    \/ FillAgain
    \/ RouteThrottle
    \/ \E resp \in FillResponses : RouteResponse(resp)

FillInit == GeoIdle /\ OsrmIdle /\ BuildIdle

SpecFill == FillInit /\ [][FillNext]_vars

\* ------------------------------------------------------------------------
\* RouteBuilder: effectiveLabelForEndpoint and drawRoutesOnMap
\* ------------------------------------------------------------------------
\* a || b on strings: the empty string is falsy
orElse(a, b) == IF a # << >> THEN a ELSE b

\* String(seg?.[key] ?? "").trim() of segment i, "" when there is no segment i
rawLabel(segs, i, key) ==
    IF i >= 1 /\ i <= Len(segs) THEN trim(segLabel(segs[i], key)) ELSE << >>

\* the neighbour's label or road token, otherwise the endpoint's own label
neighbourLabel_tokenOnly(segs, n, near, raw) ==
    IF ~isInstructionLikeLabel(near) /\ near # << >>
    THEN near
    ELSE orElse(orElse(extractRoadToken(near), extractRoadToken(segs[n].road)), raw)

\* lines 156-166: the label taken from the neighbouring segment n, whose
\* facing label is near
neighbourLabel(segs, n, near, raw) ==
    IF ~isInstructionLikeLabel(near) /\ near # << >>
    THEN near
    ELSE orElse(orElse(extractRoadToken(near), extractRoadToken(segs[n].road)),
                orElse(trim(segs[n].road), raw))

\* lines 135-169, segments counted from 1
effectiveLabelForEndpoint(r, segs, i, key) ==
    Only({ IF isRoadOnlyLabel(raw) THEN << >>
           ELSE IF ~isInstructionLikeLabel(raw) THEN raw
           ELSE IF tok # << >> THEN tok
           ELSE IF key = "to" /\ i = Len(segs)
                THEN orElse(trim(orElse(r.endPostcode, r.endLabel)), raw)
           ELSE IF key = "from" /\ i = 1
                THEN orElse(trim(orElse(r.startPostcode, r.startLabel)), raw)
           ELSE IF key = "to" /\ i + 1 <= Len(segs)
                THEN Only({ neighbourLabel(segs, i + 1, nextFrom, raw) :
                            nextFrom \in {rawLabel(segs, i + 1, "from")} })
           ELSE IF key = "from" /\ i - 1 >= 1
                THEN Only({ neighbourLabel(segs, i - 1, prevTo, raw) :
                            prevTo \in {rawLabel(segs, i - 1, "to")} })
           ELSE raw
           : << raw, tok >> \in { << x, extractRoadToken(x) >> :
                                  x \in {rawLabel(segs, i, key)} } })

\* lines 583-590
pick(v) ==
    IF v = << >> THEN << >>
    ELSE IF isRoadOnlyLabel(v) THEN << >>
    ELSE IF ~isInstructionLikeLabel(v) THEN v
    ELSE IF hasPostcode(v) THEN v
    ELSE << >>

\* lines 578-597: the loop from segment k on
RECURSIVE nextAnchorFrom(_, _, _)
nextAnchorFrom(r, segs, k) ==
    IF k > Len(segs) THEN trim(orElse(r.endPostcode, r.endLabel))
    ELSE Only({ IF p1 # << >> THEN p1
                ELSE IF p2 # << >> THEN p2
                ELSE nextAnchorFrom(r, segs, k + 1)
                : << p1, p2 >> \in { << pick(a), pick(b) >> :
                                     a \in {rawLabel(segs, k, "from")},
                                     b \in {rawLabel(segs, k, "to")} } })

nextAnchorLabel(r, segs, idx) == nextAnchorFrom(r, segs, idx + 1)

\* coords && inUkBounds(coords.lat, coords.lng), lines 566, 636, 646, 693, 697
pinned(coords) == coords # None /\ inUkBounds(coords[1].lat, coords[1].lng)

\* a build that takes no segment for drawn
hasGeometry_never(seg) == FALSE

\* line 606
hasGeometry(seg) == Len(seg.geometry) >= 2

MAX_JUMP_KM == 180

\* a guard that lets every jump through
jumpTooLong_never(a, b) == FALSE

\* lines 544-554 and 653: the same great-circle distance, in kilometres
jumpTooLong(a, b) == haversineMetersSimple(a, b) > MAX_JUMP_KM * 1000

\* what one place-search request of the build may bring back
BuildCandidates == { NearNewmarket, Leicester, Leeds }

BuildResponses ==
    { [status |-> "reject", feats |-> << >>] }
    \cup { [status |-> "ok", feats |-> << c >>] : c \in BuildCandidates }

\* lines 212-267 after a miss: the two requests get r1 and r2
geocodeAfter(h, hint, r1, r2) ==
    LET hit1 == tryFetch(r1, hint)
        hit  == IF hit1 # None THEN hit1 ELSE tryFetch(r2, hint)
        t    == geocodeTail(h[1], hit[1])
    IN IF hit = None THEN [ret |-> None, store |-> h[2], nreq |-> 2]
       ELSE [ret |-> t[1].ret, store |-> IF t[3] THEN t[2] ELSE h[2],
             nreq |-> IF hit1 # None THEN 1 ELSE 2]

\* await geocodePlace(label, hint), lines 171-268: every way the call can
\* end, as [ret, store, nreq]; ret is << >> when it throws
geocodeOutcomes(store, label, hint) ==
    UNION { IF h[1].pc = "done"
            THEN { [ret |-> h[1].ret, store |-> h[2], nreq |-> 0] }
            ELSE { geocodeAfter(h, hint, r1, r2) :
                   r1 \in BuildResponses, r2 \in BuildResponses }
            : h \in {geocodeHead(store, "drawRoutesOnMap", label, hint)} }

\* the routing service fails or answers with a path from a to b
BuildRouteResponses(a, b) ==
    { [status |-> "reject", coords |-> None],
      [status |-> "ok", coords |-> Some(<< LngLat(a), LngLat(b) >>)] }

\* await osrmRoute(a, b), lines 292-334: every way the call can end
osrmOutcomes(store, a, b) ==
    UNION { IF h[1].pc = "done"
            THEN { [ret |-> h[1].ret, store |-> h[2], nreq |-> 0] }
            ELSE { IF payloadOk(resp)
                   THEN [ret |-> resp.coords,
                         store |-> evictOldest(cacheSet(h[1].cache, h[1].k,
                                                        resp.coords[1])),
                         nreq |-> 1]
                   ELSE [ret |-> None, store |-> h[2], nreq |-> 1]
                   : resp \in BuildRouteResponses(a, b) }
            : h \in {osrmHead(store, a, b)} }

\* the record of one geocodePlace call of the build
asked(bld, seg, key, label, hint, o) ==
    [bld EXCEPT !.calls = Append(@, [seg |-> seg, key |-> key, label |-> label,
                                     hint |-> hint, nreq |-> o.nreq, ret |-> o.ret])]

\* a failure that ends the segment loop
segmentFailed_abort(bld, a, b, why) ==
    [bld EXCEPT !.pc = "seg", !.i = Len(route[1].segments) + 1, !.a = None, !.b = None,
                !.failedSegments = @ + 1,
                !.segLog = Append(@, [seg |-> bld.i, outcome |-> "failed",
                                      a |-> a, b |-> b, why |-> why])]

\* lines 682-686: the segment threw; a and b are what it had resolved
segmentFailed(bld, a, b, why) ==
    [bld EXCEPT !.pc = "seg", !.i = @ + 1, !.a = None, !.b = None,
                !.failedSegments = @ + 1,
                !.segLog = Append(@, [seg |-> bld.i, outcome |-> "failed",
                                      a |-> a, b |-> b, why |-> why])]

\* lines 664-681: the segment's line is on the map
segmentDrawn(bld, outcome, a, b) ==
    [bld EXCEPT !.pc = "seg", !.i = @ + 1, !.a = None, !.b = None,
                !.segLog = Append(@, [seg |-> bld.i, outcome |-> outcome,
                                      a |-> a, b |-> b, why |-> ""])]

anyLine(bld) ==
    bld.fallback # None \/ \E n \in 1..Len(bld.segLog) : bld.segLog[n].outcome # "failed"

\* lines 722-727 and 732
finished(bld) ==
    [bld EXCEPT !.pc = "done",
                !.status = IF anyLine(bld) THEN "Ready."
                           ELSE "No segments could be drawn"]

\* a loop that ends in the fallback whether or not a segment failed
onward_always(bld) ==
    IF bld.pc = "seg" /\ bld.i > Len(route[1].segments)
    THEN [bld EXCEPT !.pc = "fallback"]
    ELSE bld

\* the loop goes on to the next segment, to the fallback or to the end
\* (lines 599, 691, 722)
onward(bld) ==
    IF bld.pc = "seg" /\ bld.i > Len(route[1].segments)
    THEN IF bld.failedSegments > 0 THEN [bld EXCEPT !.pc = "fallback"] ELSE finished(bld)
    ELSE bld

startAnchorLabel(r) == trim(orElse(r.startPostcode, r.startLabel))
endAnchorLabel(r) == trim(orElse(r.endPostcode, r.endLabel))

\* lines 521-576: drawRoutesOnMap is called for the route and finds its first anchor
DrawStart ==
    /\ build.pc = "idle" /\ route # None
    /\ LET r == route[1]
           bld == [build EXCEPT !.pc = "seg", !.i = 1]
       IN IF startAnchorLabel(r) = << >>
          THEN build' = onward(bld) /\ UNCHANGED geoStore
          ELSE IF pinned(r.startCoords)
               THEN /\ build' = onward([bld EXCEPT !.prev = Some(Pt(r.startCoords[1].lat,
                                                                   r.startCoords[1].lng))])
                    /\ UNCHANGED geoStore
               ELSE \E o \in geocodeOutcomes(geoStore, startAnchorLabel(r), None) :
                       /\ build' = onward(asked([bld EXCEPT !.prev = o.ret], 0, "start",
                                                startAnchorLabel(r), None, o))
                       /\ geoStore' = o.store
    /\ UNCHANGED << gc, glast, gcalls, osrmVars, route, preview, otherVars >>

\* the from anchor that ignores the pinned coordinates
fromPinned_never(seg) == FALSE

\* line 636
fromPinned(seg) == pinned(seg.fromCoords)

\* lines 600-643: a segment with stored geometry is drawn from it; any other
\* segment finds its from anchor
SegmentFrom ==
    /\ build.pc = "seg" /\ build.i <= Len(route[1].segments)
    /\ LET r   == route[1]
           seg == r.segments[build.i]
           last == seg.geometry[Len(seg.geometry)]
       IN IF hasGeometry(seg)
          THEN /\ build' = onward(segmentDrawn(
                      [build EXCEPT !.prev = IF inUkBounds(last[2], last[1])
                                             THEN Some(Pt(last[2], last[1])) ELSE @],
                      "geometry", Some(Pt(seg.geometry[1][2], seg.geometry[1][1])),
                      Some(Pt(last[2], last[1]))))
               /\ UNCHANGED geoStore
          ELSE IF build.prev # None
               THEN build' = [build EXCEPT !.pc = "to", !.a = build.prev] /\ UNCHANGED geoStore
          ELSE IF fromPinned(seg)
               THEN /\ build' = [build EXCEPT !.pc = "to",
                                    !.a = Some(Pt(seg.fromCoords[1].lat, seg.fromCoords[1].lng))]
                    /\ UNCHANGED geoStore
          ELSE \E fromLabel \in {effectiveLabelForEndpoint(r, r.segments, build.i, "from")} :
               IF fromLabel # << >> /\ ~looksLikeRoadOnly(fromLabel)
               THEN \E o \in geocodeOutcomes(geoStore, fromLabel, None) :
                       /\ build' = LET bld == asked(build, build.i, "from", fromLabel, None, o)
                                   IN IF o.ret = None
                                      THEN onward(segmentFailed(bld, None, None, "geocode"))
                                      ELSE [bld EXCEPT !.pc = "to", !.a = o.ret]
                       /\ geoStore' = o.store
               ELSE /\ build' = onward(segmentFailed(build, None, None,
                                                     "Missing geocode label"))
                    /\ UNCHANGED geoStore
    /\ UNCHANGED << gc, glast, gcalls, osrmVars, route, preview, otherVars >>

\* the checks on the to anchor, made after prev has moved on to it
afterTo_early(bld, b) ==
    IF ~inUkBounds(b.lat, b.lng)
    THEN onward(segmentFailed([bld EXCEPT !.prev = Some(b)], bld.a, Some(b),
                              "Bad endpoint"))
    ELSE IF jumpTooLong(bld.a[1], b)
         THEN onward(segmentFailed([bld EXCEPT !.prev = Some(b)], bld.a, Some(b),
                                   "Unrealistic segment jump"))
         ELSE [bld EXCEPT !.pc = "route", !.b = Some(b), !.prev = Some(b)]

\* lines 649-656: the checks on the to anchor b
afterTo(bld, b) ==
    IF ~inUkBounds(b.lat, b.lng)
    THEN onward(segmentFailed(bld, bld.a, Some(b), "Bad endpoint"))
    ELSE IF jumpTooLong(bld.a[1], b)
         THEN onward(segmentFailed(bld, bld.a, Some(b), "Unrealistic segment jump"))
         ELSE [bld EXCEPT !.pc = "route", !.b = Some(b), !.prev = Some(b)]

\* lines 620-621: the label the to anchor is looked up by
toLabelOf(r, i) ==
    Only({ orElse(toLabel, nextAnchorLabel(r, r.segments, i)) :
           toLabel \in {effectiveLabelForEndpoint(r, r.segments, i, "to")} })

\* the to anchor that ignores the pinned coordinates
toPinned_never(seg) == FALSE

\* line 646
toPinned(seg) == pinned(seg.toCoords)

\* a to lookup that is given no hint
toHint_none(bld) == None

\* line 648: geocodePlace(toLabel, a)
toHint(bld) == bld.a

\* lines 645-656: the segment finds its to anchor
SegmentTo ==
    /\ build.pc = "to"
    /\ LET r   == route[1]
           seg == r.segments[build.i]
       IN IF toPinned(seg)
          THEN /\ build' = afterTo(build, Pt(seg.toCoords[1].lat, seg.toCoords[1].lng))
               /\ UNCHANGED geoStore
          ELSE \E toLabel \in {toLabelOf(r, build.i)} :
               IF toLabel # << >>
               THEN \E o \in geocodeOutcomes(geoStore, toLabel, toHint(build)) :
                       /\ build' = LET bld == asked(build, build.i, "to", toLabel,
                                                    toHint(build), o)
                                   IN IF o.ret = None
                                      THEN onward(segmentFailed(bld, build.a, None, "geocode"))
                                      ELSE afterTo(bld, o.ret[1])
                       /\ geoStore' = o.store
               ELSE /\ build' = onward(segmentFailed(build, build.a, None, "Bad endpoint"))
                    /\ UNCHANGED geoStore
    /\ UNCHANGED << gc, glast, gcalls, osrmVars, route, preview, otherVars >>

\* a segment that fails when the routing service gives no path
segmentRouted_needsPath(bld, o) ==
    LET asked3 == [bld EXCEPT !.routed = Append(@, [seg |-> bld.i, from |-> bld.a[1],
                                                    to |-> bld.b[1], nreq |-> o.nreq])]
    IN IF o.ret # None
       THEN onward(segmentDrawn(asked3, "routed", bld.a, bld.b))
       ELSE onward(segmentFailed(asked3, bld.a, bld.b, "No route"))

\* lines 659-681: osrmRoute(a, b) ended as o; its path, or the straight
\* dashed line from a to b when it returned null, is drawn
segmentRouted(bld, o) ==
    onward(segmentDrawn(
        [bld EXCEPT !.routed = Append(@, [seg |-> bld.i, from |-> bld.a[1],
                                          to |-> bld.b[1], nreq |-> o.nreq])],
        IF o.ret # None THEN "routed" ELSE "straight", bld.a, bld.b))

\* lines 658-681: the segment is routed and drawn
SegmentRoute ==
    /\ build.pc = "route"
    /\ \E o \in osrmOutcomes(osrmStore, build.a[1], build.b[1]) :
          /\ build' = segmentRouted(build, o)
          /\ osrmStore' = o.store
    /\ UNCHANGED << geoVars, oc, ocalls, route, preview, otherVars >>

\* lines 691-695: a segment failed, the fallback looks for the journey start
FallbackStart ==
    /\ build.pc = "fallback"
    /\ LET r == route[1]
       IN IF pinned(r.startCoords)
          THEN /\ build' = [build EXCEPT !.pc = "fallbackEnd",
                               !.start = Some(Pt(r.startCoords[1].lat, r.startCoords[1].lng))]
               /\ UNCHANGED geoStore
          ELSE \E o \in geocodeOutcomes(geoStore, startAnchorLabel(r), None) :
                  /\ build' = LET bld == asked(build, 0, "fallbackStart",
                                               startAnchorLabel(r), None, o)
                              IN IF o.ret = None THEN finished(bld)
                                 ELSE [bld EXCEPT !.pc = "fallbackEnd", !.start = o.ret]
                  /\ geoStore' = o.store
    /\ UNCHANGED << gc, glast, gcalls, osrmVars, route, preview, otherVars >>

\* lines 697-701: the fallback looks for the journey end, near the start
FallbackEnd ==
    /\ build.pc = "fallbackEnd"
    /\ LET r == route[1]
       IN IF pinned(r.endCoords)
          THEN /\ build' = [build EXCEPT !.pc = "fallbackRoute",
                               !.end = Some(Pt(r.endCoords[1].lat, r.endCoords[1].lng))]
               /\ UNCHANGED geoStore
          ELSE \E o \in geocodeOutcomes(geoStore, endAnchorLabel(r), build.start) :
                  /\ build' = LET bld == asked(build, 0, "fallbackEnd",
                                               endAnchorLabel(r), build.start, o)
                              IN IF o.ret = None THEN finished(bld)
                                 ELSE [bld EXCEPT !.pc = "fallbackRoute", !.end = o.ret]
                  /\ geoStore' = o.store
    /\ UNCHANGED << gc, glast, gcalls, osrmVars, route, preview, otherVars >>

\* lines 701-717: the fallback line from start to end
FallbackRoute ==
    /\ build.pc = "fallbackRoute"
    /\ \E o \in osrmOutcomes(osrmStore, build.start[1], build.end[1]) :
          /\ build' = finished(
                 [build EXCEPT !.routed = Append(@, [seg |-> 0, from |-> build.start[1],
                                                     to |-> build.end[1], nreq |-> o.nreq]),
                               !.fallback = Some([from |-> build.start[1],
                                                  to |-> build.end[1],
                                                  routed |-> o.ret # None])])
          /\ osrmStore' = o.store
    /\ UNCHANGED << geoVars, oc, ocalls, route, preview, otherVars >>

\* resolveEndpoint(seg, key, hint, labelOverride), lines 277-290: every way
\* the call can end, as [ret, store, nreq]
resolveEndpoint(store, seg, key, hint, labelOverride) ==
    LET override == resolveOverride(segCoords(seg, key))
        raw == trim(IF labelOverride # None THEN labelOverride[1] ELSE segLabel(seg, key))
    IN IF override # None THEN { [ret |-> override, store |-> store, nreq |-> 0] }
       ELSE IF raw = << >>
            THEN { [ret |-> IF isFiniteHint(hint) THEN hint ELSE None,
                    store |-> store, nreq |-> 0] }
            ELSE geocodeOutcomes(store, raw, hint)

\* admin.js lines 452-457: the admin preview of the route resolves one
\* endpoint of one of its segments
PreviewEndpoint(i, key) ==
    /\ build.pc = "idle" /\ route # None /\ preview = None
    /\ i <= Len(route[1].segments)
    /\ LET seg == route[1].segments[i]
       IN /\ seg.from # << >> /\ seg.to # << >> /\ ~hasGeometry(seg)
          /\ \E o \in resolveEndpoint(geoStore, seg, key, None, None) :
                /\ preview' = Some([seg |-> i, key |-> key, ret |-> o.ret, nreq |-> o.nreq])
                /\ geoStore' = o.store
    /\ UNCHANGED << gc, glast, gcalls, osrmVars, route, build, otherVars >>

\* ------------------------------------------------------------------------
\* Inputs of the route-builder specification
\* ------------------------------------------------------------------------
L_CB8 == << "C", "B", "8", " ", "7", "N", "R" >>
L_A17 == << "A", "1", "7" >>
L_Rbt == << "A", "t", " ", "r", "o", "u", "n", "d", "a", "b", "o", "u", "t", " ", "t", "a", "k", "e", " ", "3", "r", "d", " ", "e", "x", "i", "t" >>
L_TakeA14 == << "T", "a", "k", "e", " ", "A", "1", "4" >>
L_Depot == << "D", "e", "p", "o", "t" >>

RSeg(road, f, t, fc, tc, geometry) ==
    [road |-> road, from |-> f, to |-> t, fromCoords |-> fc, toCoords |-> tc,
     geometry |-> geometry]

Route(sl, sc, el, ec, segments) ==
    [startPostcode |-> << >>, startLabel |-> sl, startCoords |-> sc,
     endPostcode |-> << >>, endLabel |-> el, endCoords |-> ec, segments |-> segments]

\* every endpoint pinned on the map; the last to label is an instruction
R_Pinned ==
    Route(L_Ely, Some(Newmarket), L_Depot, None,
          << RSeg(L_A17, L_Ely, L_CB8, None, Some(NearNewmarket), << >>),
             RSeg(L_A17, L_CB8, L_Rbt, None, Some(Leicester), << >>) >>)

\* a segment drawn with snap to road: the clicked points are kept as its
\* coordinates, the routed path as its geometry (admin.js lines 300-330)
R_Snapped ==
    Route(L_Ely, None, L_Depot, None,
          << RSeg(L_A17, L_Ely, L_CB8, Some(NearNewmarket), Some(Birmingham), RouteGood),
             RSeg(L_A17, L_CB8, L_Depot, None, None, << >>) >>)

\* no journey start and a road name as the first from label
R_NoFrom ==
    Route(L_Empty, None, L_Depot, None,
          << RSeg(L_A17, L_A17, L_Ely, None, Some(Newmarket), << >>),
             RSeg(L_A17, L_Ely, L_Depot, None, None, << >>) >>)

\* a to point pinned far from the start
R_Far ==
    Route(L_Ely, Some(Newmarket), L_Depot, None,
          << RSeg(L_A17, L_Ely, L_Depot, None, Some(Leeds), << >>) >>)

\* to points pinned outside the envelope or not numbers
R_BadPin ==
    Route(L_CB8, None, L_Depot, Some(Leicester),
          << RSeg(L_A17, L_CB8, L_TakeA14, None, Some(JustSouth), << >>),
             RSeg(L_A17, L_Rbt, L_A17, Some(Paris), Some(NaNPoint), << >>) >>)

\* nothing pinned; instructions and road names as labels
R_Chain ==
    Route(L_Empty, None, L_Empty, None,
          << RSeg(L_A17, L_Ely, L_Rbt, None, None, << >>),
             RSeg(L_TakeA14, L_Rbt, L_A17, None, None, << >>) >>)

R_Empty == Route(L_Ely, None, L_Depot, None, << >>)

\* no journey start; both ends of both segments pinned, the second from
\* point away from the first to point
R_FromPinned ==
    Route(L_Empty, None, L_Depot, None,
          << RSeg(L_A17, L_Ely, L_CB8, Some(Newmarket), Some(NearNewmarket), << >>),
             RSeg(L_A17, L_TakeA14, L_Depot, Some(SouthNewmarket), Some(Leicester),
                  << >>) >>)

\* the journey start pinned on the map of a route that has no start label
\* (admin.js lines 254-266 store the point and add no label)
R_StartPinned ==
    Route(L_Empty, Some(Newmarket), L_Depot, None,
          << RSeg(L_A17, L_A17, L_Ely, None, Some(NearNewmarket), << >>) >>)

\* a segment drawn with snap to road whose second click was in Calais, east
\* of the envelope (admin.js lines 288-324 take any two points of the map)
Calais == Pt(5095, 185)
RouteToCalais == << LngLat(Newmarket), LngLat(Calais) >>

R_SnappedAbroad ==
    Route(L_Ely, Some(Newmarket), L_Depot, None,
          << RSeg(L_A17, L_Ely, L_CB8, Some(Newmarket), Some(Calais), RouteToCalais),
             RSeg(L_A17, L_CB8, L_Depot, None, Some(NearNewmarket), << >>) >>)

\* three segments, the second with its to point pinned far away
R_Three ==
    Route(L_Ely, Some(Newmarket), L_Depot, None,
          << RSeg(L_A17, L_Ely, L_CB8, None, Some(NearNewmarket), << >>),
             RSeg(L_A17, L_CB8, L_Depot, None, Some(Leeds), << >>),
             RSeg(L_A17, L_Depot, L_CB8, None, Some(Leicester), << >>) >>)

Routes ==
    { R_Pinned, R_Snapped, R_NoFrom, R_Far, R_BadPin, R_Chain, R_Empty, R_FromPinned,
      R_StartPinned, R_Three, R_SnappedAbroad }

\* what localStorage may hold when the map is opened: nothing, or a place
\* remembered from an earlier visit
BuildGeoStores ==
    { None, StoredCache(GEOCODE_CACHE_VERSION, geocodeKey(L_Depot), Leeds) }

BuildInit ==
    /\ geoStore \in BuildGeoStores
    /\ gc = IdleCall
    /\ glast = None
    /\ gcalls = 0
    /\ OsrmIdle
    /\ route \in { Some(r) : r \in Routes }
    /\ build = IdleBuild
    /\ preview = None
    /\ OtherIdle

BuildNext ==
    \/ \E i \in 1..Len(route[1].segments), key \in {"from", "to"} : PreviewEndpoint(i, key)
    \/ DrawStart
    \/ SegmentFrom
    \/ SegmentTo
    \/ SegmentRoute
    \/ FallbackStart
    \/ FallbackEnd
    \/ FallbackRoute

SpecBuild == BuildInit /\ [][BuildNext]_vars

\* ------------------------------------------------------------------------
\* Properties of the geocode cache and the anchor resolver
\* ------------------------------------------------------------------------
Returned == gc.pc = "done" /\ gc.ret # None

\* the in-envelope candidates of the response the call handled last
SurvivingCandidates ==
    { f \in { gc.resp[1].feats[i] : i \in 1..Len(gc.resp[1].feats) } :
        gc.resp[1].status = "ok" /\ isFinite(f.lat) /\ isFinite(f.lng)
        /\ f.lat >= 4980 /\ f.lat <= 6095 /\ f.lng >= -865 /\ f.lng <= 180 }

\* C1: every coordinate returned by geocodePlace or resolveEndpoint lies in
\* the envelope 49.8 <= lat <= 60.95, -8.65 <= lng <= 1.8, on every return
\* path (override, cached entry, fresh lookup, hint pass-through).
C1_ReturnedInEnvelope ==
    Returned =>
        /\ isFinite(gc.ret[1].lat) /\ isFinite(gc.ret[1].lng)
        /\ gc.ret[1].lat >= 4980 /\ gc.ret[1].lat <= 6095
        /\ gc.ret[1].lng >= -865 /\ gc.ret[1].lng <= 180

\* C2: a geocode lookup made with a finite hint never returns a coordinate
\* farther than 120 km from that hint, whether the label is looked up fresh
\* or was cached by an earlier call made with another hint or with none.
\* (Stated for the hints that are themselves anchors inside the envelope,
\* the ones the segment chain passes.)
C2_HintedWithin120km ==
    (Returned /\ gc.path \in {"cache", "fresh"} /\ isFiniteHint(gc.hint)
        /\ inUkPoint(gc.hint[1])) =>
        haversineMetersSimple(gc.hint[1], gc.ret[1]) <= 120000

\* C3: on a cache miss the response decides the result.  With a finite hint
\* the result is an in-envelope candidate at the smallest distance from the
\* hint, and that distance is at most 120 km; without one it is the first
\* in-envelope candidate; and a response is passed over (the raw-label retry,
\* then the error) only when it has no in-envelope candidate, or the hint is
\* finite and every in-envelope candidate is farther than 120 km from it.
C3_NearestOrFail ==
    /\ (Returned /\ gc.path = "fresh") =>
          /\ gc.ret[1] \in SurvivingCandidates
          /\ IF isFiniteHint(gc.hint)
             THEN /\ \A f \in SurvivingCandidates :
                        haversineMetersSimple(gc.hint[1], gc.ret[1])
                            <= haversineMetersSimple(gc.hint[1], f)
                  /\ haversineMetersSimple(gc.hint[1], gc.ret[1]) <= 120000
             ELSE LET feats == gc.resp[1].feats
                  IN \E i \in 1..Len(feats) :
                        /\ feats[i] = gc.ret[1]
                        /\ \A j \in 1..(i-1) : feats[j] \notin SurvivingCandidates
    /\ (gc.pc = "fetch2" \/ (gc.pc = "done" /\ gc.err = "No match")) =>
          \/ SurvivingCandidates = {}
          \/ /\ isFiniteHint(gc.hint)
             /\ \A f \in SurvivingCandidates :
                    haversineMetersSimple(gc.hint[1], f) > 120000

\* C3 happens: hint Newmarket, candidates Leeds (217 km) and a place 4 km away
C3_Witness ==
    /\ Returned /\ gc.path = "fresh" /\ gc.hint = Some(Newmarket)
    /\ gc.resp[1].feats = << Leeds, NearNewmarket >>
    /\ gc.ret = Some(NearNewmarket)

SameKey == toLowerCase(trim(glast[1].label)) = toLowerCase(trim(gc.label))

TwoLookups ==
    /\ gc.pc = "done" /\ gc.path \in {"cache", "fresh"}
    /\ glast # None /\ glast[1].path = "fresh" /\ SameKey

\* C4 as stated: two calls with the same label make exactly one network call
\* in total, issued by the first.
C4_ExactlyOneRequest ==
    TwoLookups => (glast[1].nreq = 1 /\ gc.nreq = 0)

\* C4 amended: after a lookup that missed the cache and succeeded (one or two
\* place-search requests), the next call with the same trimmed, lower-cased
\* label issues no request and returns the persisted coordinate.
C4_SecondCallFromCache ==
    TwoLookups =>
        /\ glast[1].nreq \in {1, 2}
        /\ gc.nreq = 0 /\ gc.path = "cache" /\ gc.ret = glast[1].ret
        /\ geoStore # None
        /\ toLowerCase(trim(gc.label)) \in DOMAIN geoStore[1].e
        /\ geoStore[1].e[toLowerCase(trim(gc.label))] = gc.ret[1]

C4_Witness ==
    TwoLookups /\ glast[1].nreq = 2 /\ glast[1].label # gc.label /\ gc.nreq = 0

\* C5: when the stored cache carries another format version, a lookup never
\* returns an entry of it: the stored item is dropped, the lookup goes to the
\* network, and what is stored afterwards holds at most the looked-up key.
C5_OldVersionMisses ==
    (gc.pc # "idle" /\ gc.readV \notin {0, 2}) =>
        /\ gc.path # "cache"
        /\ \/ geoStore = None
           \/ geoStore[1].v = 2 /\ DOMAIN geoStore[1].e \subseteq {gc.k}
        /\ gc.k # << >> =>
              \/ gc.pc \in {"throttle", "fetch1", "fetch2"}
              \/ gc.pc = "done" /\ gc.nreq >= 1
        /\ gc.ret # None => gc.nreq >= 1 /\ gc.ret[1] \in SurvivingCandidates

C5_Witness ==
    /\ gc.readV = 1 /\ gc.k = << "e", "l", "y" >> /\ Returned
    /\ gc.ret[1] # NearNewmarket /\ geoStore # None

\* ------------------------------------------------------------------------
\* Properties of the route cache
\* ------------------------------------------------------------------------
\* the checks of a route-cache entry: at least 2 points, each a finite pair,
\* all inside lat in [45, 62], lng in [-12, 5]
ValidRoute(coords) ==
    /\ Len(coords) >= 2
    /\ \A i \in 1..Len(coords) :
          /\ Len(coords[i]) >= 2
          /\ coords[i][1] # NaN /\ coords[i][2] # NaN
          /\ coords[i][2] >= 4500 /\ coords[i][2] <= 6200
          /\ coords[i][1] >= -1200 /\ coords[i][1] <= 500

\* C6: osrmRoute never returns a cached polyline that is malformed or lies
\* outside lat in [45, 62], lng in [-12, 5]; a call that finds such an entry
\* deletes it, goes on as on a miss and issues the routing request.
C6_NoInvalidCachedRoute ==
    /\ (oc.pc = "done" /\ oc.path = "cache") => ValidRoute(oc.ret[1])
    /\ (oc.pc # "idle" /\ oc.seen # None /\ ~ValidRoute(oc.seen[1])) =>
          /\ oc.path # "cache"
          /\ oc.pc \in {"throttle", "fetch"} => oc.k \notin cacheKeys(osrmStore)
          /\ oc.pc = "done" =>
                /\ oc.nreq = 1
                /\ oc.ret = None => oc.k \notin cacheKeys(osrmStore)

C6_Witness ==
    /\ oc.pc = "done" /\ oc.seen = Some(RouteOutside) /\ oc.nreq = 1
    /\ oc.ret = Some(RouteGood)

RequestFailed(resp) ==
    resp.status # "ok" \/ resp.coords = None \/ Len(resp.coords[1]) < 2

C8_WriteValidated ==
    /\ \A i \in 1..Len(osrmStore) : ValidRoute(osrmStore[i].v)
    /\ (oc.pc = "done" /\ oc.path = "fresh") => ValidRoute(oc.ret[1])

Inserted == oc.pc = "fetch" /\ oc'.pc = "done" /\ oc'.path = "fresh"

\* C9: starting from an empty route cache the stored cache never holds more
\* than 250 entries; an insert that makes the total exceed 250 removes
\* exactly the 50 entries inserted first, and the entry just inserted stays.
C9_CacheBounded ==
    /\ [](Len(osrmStore) <= 250)
    /\ [][ Inserted =>
            LET all == Append(osrmStore, [k |-> oc.k, v |-> oc'.ret[1]])
            IN /\ osrmStore' = IF Len(all) > 250 THEN SubSeq(all, 51, Len(all))
                               ELSE all
               /\ osrmStore'[Len(osrmStore')].k = oc.k ]_vars

\* the 251st insert has happened: 201 entries are left, the oldest is the 51st
C9_Witness ==
    /\ oc.pc = "done" /\ oc.path = "fresh" /\ Len(osrmStore) = 201
    /\ osrmStore[1].k = osrmKey(Newmarket, LinePoint(51))
    /\ osrmStore[201].k = oc.k /\ oc.k = osrmKey(Newmarket, LinePoint(251))

\* ------------------------------------------------------------------------
\* Properties of the route builder
\* ------------------------------------------------------------------------
\* the build asked geocodePlace for the to anchor of segment i
AskedForTo(i) ==
    \E n \in 1..Len(build.calls) : build.calls[n].seg = i /\ build.calls[n].key = "to"

\* the to anchors segment i has had: the one it ended with (drawn or failed),
\* the one it is being routed to; << >> stands for none
ToAnchors(i) ==
    { build.segLog[n].b : n \in { m \in 1..Len(build.segLog) : build.segLog[m].seg = i } }
    \cup (IF build.pc = "route" /\ build.i = i THEN {build.b} ELSE {})

\* segment i got a from anchor
FromResolved(i) ==
    \/ \E n \in 1..Len(build.segLog) : build.segLog[n].seg = i /\ build.segLog[n].a # None
    \/ build.pc = "route" /\ build.i = i

\* the preview called resolveEndpoint(seg, "to") for a segment i whose
\* toCoords are valid, and got them back without a request
PreviewedToPinned ==
    /\ preview # None /\ preview[1].key = "to"
    /\ pinned(route[1].segments[preview[1].seg].toCoords)

PreviewToIsPinned ==
    PreviewedToPinned =>
        /\ preview[1].ret = route[1].segments[preview[1].seg].toCoords
        /\ preview[1].nreq = 0

AskedForFrom(i) ==
    \E n \in 1..Len(build.calls) : build.calls[n].seg = i /\ build.calls[n].key = "from"

\* the entries of the segment log for segments without stored geometry whose
\* fromCoords are inside the envelope
FromPinnedEntries ==
    { n \in 1..Len(build.segLog) :
        /\ ~hasGeometry(route[1].segments[build.segLog[n].seg])
        /\ pinned(route[1].segments[build.segLog[n].seg].fromCoords) }

TakesUpFromPinned ==
    /\ route # None /\ build.pc = "seg" /\ build.i <= Len(route[1].segments)
    /\ build'.pc # "seg" \/ build'.i # build.i
    /\ ~hasGeometry(route[1].segments[build.i])
    /\ pinned(route[1].segments[build.i].fromCoords)

BuildStarts == route # None /\ build.pc = "idle" /\ build'.pc # "idle"

\* C12: the build starts with prev = startCoords and no geocode call whenever
\* startCoords are inside the envelope, whether or not the route has a start
\* label or postcode; only otherwise is startPostcode || startLabel geocoded,
\* and prev starts unset if that fails.
C12_PrevFromStartCoords ==
    [][BuildStarts =>
          IF pinned(route[1].startCoords)
          THEN build'.prev = route[1].startCoords /\ build'.calls = << >>
          ELSE IF startAnchorLabel(route[1]) # << >>
               THEN /\ Len(build'.calls) = 1
                    /\ build'.calls[1].label = startAnchorLabel(route[1])
                    /\ build'.prev = build'.calls[1].ret
               ELSE build'.prev = None /\ build'.calls = << >>]_vars

\* ------------------------------------------------------------------------
\* The label classifier on its own: a label is drawn and classified
\* ------------------------------------------------------------------------
MaxWords == 3

T_Take == << "T", "a", "k", "e" >>
T_Atlow == << "A", "t", "l", "o", "w" >>
T_Roundabout == << "r", "o", "u", "n", "d", "a", "b", "o", "u", "t" >>
T_Flyover == << "F", "l", "y", "o", "v", "e", "r" >>
T_3rd == << "3", "r", "d" >>
T_Exit == << "e", "x", "i", "t" >>
T_Exits == << "e", "x", "i", "t", "s" >>
T_Into == << "i", "n", "t", "o" >>

\* what a cell of a route sheet is made of: place names, a postcode, and the
\* words the classifier looks for, some of them inside longer words
LabelWords ==
    { L_Ely, L_CB8, T_Take, T_Atlow, T_Roundabout, T_Flyover, T_3rd, T_Exit, T_Exits,
      T_Into }

RECURSIVE joined(_)
joined(ws) ==
    IF ws = << >> THEN << >>
    ELSE IF Len(ws) = 1 THEN ws[1]
    ELSE ws[1] \o << " " >> \o joined(Tail(ws))

ClassifierLabels ==
    { joined(ws) : ws \in UNION { [1..n -> LabelWords] : n \in 0..MaxWords } }
    \cup { L_Blank, L_elyPad }

LabelInit ==
    /\ GeoIdle /\ OsrmIdle
    /\ route = None /\ build = IdleBuild /\ preview = None
    /\ labelled \in { Some([label |-> l, pc |-> "label", result |-> FALSE]) :
                       l \in ClassifierLabels }
    /\ flights = << >>
    /\ UiIdle

\* lines 107-117: isInstructionLikeLabel(label) returns
Classify ==
    /\ labelled # None /\ labelled[1].pc = "label"
    /\ labelled' = Some([labelled[1] EXCEPT !.pc = "classified",
                                            !.result = isInstructionLikeLabel(labelled[1].label)])
    /\ UNCHANGED << geoVars, osrmVars, buildVars, flights, uiVars >>

LabelNext == Classify

SpecLabel == LabelInit /\ [][LabelNext]_vars

\* ------------------------------------------------------------------------
\* effectiveLabelForEndpoint over a range of routes (lines 135-169)
\* ------------------------------------------------------------------------
L_HighSt == << "H", "i", "g", "h", " ", "S", "t" >>

EndpointLabels == { L_A17, L_Ely, L_elyPad, L_TakeA14, L_Rbt, L_Empty }

RoadTexts == { L_A17, L_HighSt, L_Empty }

\* routes of one or two segments; segment 1's to and segment 2's from face
\* each other, the outer labels are the route's first from and last to
EffectiveRoutes ==
    { [Route(sl, None, sl, None, segments) EXCEPT !.startPostcode = pc, !.endPostcode = pc] :
        sl \in {L_Empty, L_Depot}, pc \in {L_Empty, L_CB8},
        segments \in
            { << RSeg(road, a, b, None, None, << >>) >> :
                 road \in {L_A17}, a \in EndpointLabels, b \in EndpointLabels }
            \cup
            { << RSeg(road, L_Ely, a, None, None, << >>),
                 RSeg(road, b, L_Ely, None, None, << >>) >> :
                 road \in RoadTexts, a \in EndpointLabels, b \in EndpointLabels } }

EffectiveInit ==
    /\ GeoIdle /\ OsrmIdle
    /\ route \in { Some(r) : r \in EffectiveRoutes }
    /\ build = IdleBuild /\ preview = None
    /\ labelled = None
    /\ flights = << >>
    /\ UiIdle

\* lines 135-169: effectiveLabelForEndpoint(route, segs, i, key) returns
EffectiveLabel(i, key) ==
    /\ labelled = None /\ route # None
    /\ i \in DOMAIN route[1].segments
    /\ labelled' = Some([i |-> i, key |-> key,
                         ret |-> effectiveLabelForEndpoint(route[1], route[1].segments, i, key)])
    /\ UNCHANGED << geoVars, osrmVars, buildVars, flights, uiVars >>

EffectiveNext == \E i \in 1..2, key \in {"from", "to"} : EffectiveLabel(i, key)

SpecEffective == EffectiveInit /\ [][EffectiveNext]_vars

\* ------------------------------------------------------------------------
\* Calls that overlap: the page starts a geocodePlace or osrmRoute call while
\* earlier ones still wait for the network (admin.js lines 313, 365, 460-462
\* and drawRoutesOnMap share the two caches)
\* ------------------------------------------------------------------------
MaxFlights == 3

FlightLabels == { L_Ely, L_Depot }

FlightPairs == { << Newmarket, Leicester >>, << Newmarket, NearNewmarket >> }

\* geocodePlace(label, null) begins: lines 172-187 run to the first await
FlightGeocode(label) ==
    /\ Len(flights) < MaxFlights
    /\ \E h \in {geocodeHead(geoStore, "geocodePlace", label, None)} :
          /\ flights' = Append(flights, [kind |-> "geocode", c |-> h[1]])
          /\ geoStore' = h[2]
    /\ UNCHANGED << gc, glast, gcalls, osrmVars, buildVars, labelled, uiVars >>

\* osrmRoute(from, to) begins: lines 293-313 run to the first await
FlightRoute(from, to) ==
    /\ Len(flights) < MaxFlights
    /\ \E h \in {osrmHead(osrmStore, from, to)} :
          /\ flights' = Append(flights, [kind |-> "osrm", c |-> h[1]])
          /\ osrmStore' = h[2]
    /\ UNCHANGED << geoVars, oc, ocalls, buildVars, labelled, uiVars >>

\* lines 196 and 316: the throttle of call n elapses and its request goes out
FlightThrottle(n) ==
    /\ flights[n].c.pc = "throttle"
    /\ flights' = [flights EXCEPT ![n].c.pc = IF flights[n].kind = "geocode"
                                              THEN "fetch1" ELSE "fetch",
                                  ![n].c.nreq = 1]
    /\ UNCHANGED << geoVars, osrmVars, buildVars, labelled, uiVars >>

\* lines 215-267: a place-search response arrives for call n, which goes on
\* with the cache object it read when it began
FlightGeocodeResponse(n, resp) ==
    /\ flights[n].kind = "geocode"
    /\ flights[n].c.pc \in {"fetch1", "fetch2"}
    /\ LET c   == [flights[n].c EXCEPT !.resp = Some(resp)]
           hit == tryFetch(resp, c.hint)
       IN IF hit # None
          THEN \E t \in {geocodeTail(c, hit[1])} :
                  /\ flights' = [flights EXCEPT ![n].c = t[1]]
                  /\ geoStore' = IF t[3] THEN t[2] ELSE geoStore
          ELSE /\ flights' = [flights EXCEPT ![n].c =
                                 IF c.pc = "fetch1"
                                 THEN [c EXCEPT !.pc = "fetch2", !.nreq = 2]
                                 ELSE [c EXCEPT !.pc = "done", !.err = "No match"]]
               /\ UNCHANGED geoStore
    /\ UNCHANGED << gc, glast, gcalls, osrmVars, buildVars, labelled, uiVars >>

\* lines 320-333: the routing response arrives for call n, which goes on with
\* the cache object it read when it began
FlightRouteResponse(n, resp) ==
    /\ flights[n].kind = "osrm"
    /\ flights[n].c.pc = "fetch"
    /\ LET c == flights[n].c
       IN IF ~payloadOk(resp)
          THEN /\ flights' = [flights EXCEPT ![n].c =
                                 [c EXCEPT !.pc = "done", !.resp = Some(resp),
                                           !.ret = None, !.path = "null"]]
               /\ UNCHANGED osrmStore
          ELSE \E cache \in {evictOldest(cacheSet(c.cache, c.k, resp.coords[1]))} :
                  /\ flights' = [flights EXCEPT ![n].c =
                                    [c EXCEPT !.pc = "done", !.resp = Some(resp),
                                              !.cache = cache,
                                              !.ret = resp.coords, !.path = "fresh"]]
                  /\ osrmStore' = cache
    /\ UNCHANGED << geoVars, oc, ocalls, buildVars, labelled, uiVars >>

FlightResponses ==
    { [status |-> "reject", feats |-> << >>],
      [status |-> "ok", feats |-> << NearNewmarket >>] }

FlightRouteResponses ==
    { [status |-> "reject", coords |-> None],
      [status |-> "ok", coords |-> Some(RouteGood)] }

OverlapInit ==
    /\ GeoIdle /\ OsrmIdle
    /\ route = None /\ build = IdleBuild /\ preview = None
    /\ labelled = None
    /\ flights = << >>
    /\ UiIdle

OverlapNext ==
    \/ \E label \in FlightLabels : FlightGeocode(label)
    \/ \E pair \in FlightPairs : FlightRoute(pair[1], pair[2])
    \/ \E n \in 1..Len(flights) : FlightThrottle(n)
    \/ \E n \in 1..Len(flights), resp \in FlightResponses : FlightGeocodeResponse(n, resp)
    \/ \E n \in 1..Len(flights), resp \in FlightRouteResponses : FlightRouteResponse(n, resp)

SpecOverlap == OverlapInit /\ [][OverlapNext]_vars

\* ------------------------------------------------------------------------
\* The public map and its route selection (lines 521-537, 736-757, 911-970).
\* A route is taken as a whole here: its build waits for its external calls
\* and then adds its lines to the route layer.
\* ------------------------------------------------------------------------
MaxChanges == 3

RouteIds == {1, 2, 3}

\* all.filter(r => routeIds.includes(r.id)), line 533: in the order of the store
RECURSIVE inStoreOrder(_)
inStoreOrder(ids) ==
    IF ids = {} THEN << >>
    ELSE LET low == CHOOSE x \in ids : \A y \in ids : x <= y
         IN << low >> \o inStoreOrder(ids \ {low})

\* lines 731-733: finally{ __loading = false; }
finally(pg) == [pg EXCEPT !.loading = FALSE]

\* lines 521-537: drawRoutesOnMap({routeIds}) up to its first await; page.builds
\* counts the calls that have passed line 524 and not reached line 733
drawRoutesOnMap(pg, routeIds) ==
    IF pg.loading THEN pg
    ELSE IF routeIds = {}
         THEN finally([pg EXCEPT !.loading = TRUE, !.layer = {},
                                 !.status = "Select a route to display."])
         ELSE [pg EXCEPT !.layer = {}, !.loading = TRUE, !.builds = @ + 1,
                         !.ids = inStoreOrder(routeIds), !.at = 1,
                         !.status = "Building routes"]

\* lines 911-920: a checkbox of the route list changes
PageToggle(id) ==
    /\ page.changes < MaxChanges
    /\ \E sel \in {IF id \in page.selected THEN page.selected \ {id}
                    ELSE page.selected \cup {id}} :
          page' = drawRoutesOnMap([page EXCEPT !.selected = sel, !.changes = @ + 1], sel)
    /\ UNCHANGED << geoVars, osrmVars, buildVars, labelled, flights, admin, lstStore >>

\* lines 950-970: select all, deselect all
PageSelectAll(all) ==
    /\ page.changes < MaxChanges
    /\ \E sel \in {IF all THEN page.selected \cup RouteIds ELSE page.selected \ RouteIds} :
          page' = drawRoutesOnMap([page EXCEPT !.selected = sel, !.changes = @ + 1], sel)
    /\ UNCHANGED << geoVars, osrmVars, buildVars, labelled, flights, admin, lstStore >>

\* lines 556-720: the external calls of the route the build is at complete
\* and its lines are on the layer; after the last route, lines 722-733
PageRouteLands ==
    /\ page.loading /\ ~page.stalled
    /\ page' = IF page.at < Len(page.ids)
               THEN [page EXCEPT !.layer = @ \cup {page.ids[page.at]}, !.at = @ + 1]
               ELSE finally([page EXCEPT !.layer = @ \cup {page.ids[page.at]}, !.at = 0,
                                         !.ids = << >>, !.builds = @ - 1,
                                         !.status = "Ready."])
    /\ UNCHANGED << geoVars, osrmVars, buildVars, labelled, flights, admin, lstStore >>

\* lines 215 and 320: a fetch (no timeout, no abort signal) of the route the build is at never completes
PageStall ==
    /\ page.loading /\ ~page.stalled
    /\ page' = [page EXCEPT !.stalled = TRUE]
    /\ UNCHANGED << geoVars, osrmVars, buildVars, labelled, flights, admin, lstStore >>

\* lines 728-733: a statement of the build outside the inner try blocks
\* throws; the catch reports it and the finally block runs
PageThrows ==
    /\ page.loading /\ ~page.stalled
    /\ page' = finally([page EXCEPT !.at = 0, !.ids = << >>, !.builds = @ - 1,
                                    !.status = "Couldn't build routes."])
    /\ UNCHANGED << geoVars, osrmVars, buildVars, labelled, flights, admin, lstStore >>

\* lines 744-757: initLstMap has drawn the selection it found in localStorage
PageInit ==
    /\ GeoIdle /\ OsrmIdle
    /\ route = None /\ build = IdleBuild /\ preview = None
    /\ labelled = None /\ flights = << >>
    /\ page \in { drawRoutesOnMap([IdlePage EXCEPT !.selected = sel], sel) :
                   sel \in SUBSET RouteIds }
    /\ admin = IdleAdmin /\ lstStore = IdleStore

PageNext ==
    \/ \E id \in RouteIds : PageToggle(id)
    \/ \E all \in BOOLEAN : PageSelectAll(all)
    \/ PageRouteLands
    \/ PageThrows
    \/ PageStall

SpecPage == PageInit /\ [][PageNext]_vars

\* a call that does not stall completes
SpecPageFair == SpecPage /\ WF_vars(PageRouteLands)

\* ------------------------------------------------------------------------
\* The admin route editor: drawing segments and picking coordinates on the
\* preview map (admin.js lines 155-345, 1168-1225, 1500-1568).
\* admin.routes is the edited route as localStorage holds it; a handler that
\* read the store holds its own copy (LST_STORE.get() parses afresh).
\* admin.stale: ADMIN.render has replaced the map host and the timer of
\* lines 1176-1179 has not fired yet.
\* admin.drawn: the segments the click handlers appended, in that order.
\* admin.quiet: the user has done nothing but click the map.
\* admin.tempLine: __lstDrawState.tempLine is not null; admin.timers are the
\* timers of the mousemove handler that have not fired, admin.snapTimer the
\* id that __lstDrawState._snapTimer holds (0 for null), admin.hovers the
\* osrmRoute calls of fired timers, admin.requests their number so far.
\* admin.gen numbers the preview maps ensureLstPreviewMap made; admin.layer is
\* __lstPrevLayer of the newest one, each line with its route, its segment
\* and the map its drawLstPreview run began on; admin.previews are the
\* drawLstPreview runs that wait for a segment's calls.
\* ------------------------------------------------------------------------
MaxActs == 4

ClickPoints == {Newmarket, Leicester}

PickTargets ==
    [type : {"seg"}, idx : 1..2, key : {"from", "to"}]
        \cup [type : {"route"}, idx : {0}, key : {"start", "end"}]

without(seq, n) == [i \in 1..(Len(seq) - 1) |-> IF i < n THEN seq[i] ELSE seq[i + 1]]

\* clearTimeout(__lstDrawState._snapTimer) left out
clearSnapTimer_kept(a) == [a EXCEPT !.snapTimer = 0]

\* if(_snapTimer){ clearTimeout(_snapTimer); _snapTimer = null; }
clearSnapTimer(a) ==
    LET others(t) == t.id # a.snapTimer
    IN [a EXCEPT !.timers = SelectSeq(@, others), !.snapTimer = 0]

\* lines 223-231: clearTemp()
clearTemp(a) ==
    [clearSnapTimer(a) EXCEPT !.snapKey = None, !.tempLine = FALSE, !.start = None]

\* lines 181-193: destroyLstPreviewMap()
destroyLstPreviewMap(a) ==
    [clearSnapTimer(a) EXCEPT !.snapKey = None, !.tempLine = FALSE, !.start = None,
                              !.layer = << >>]

\* lines 323-344: route.segments.push(newSeg); LST_STORE.save(routes); the
\* chain branch; ADMIN.render(container)
segmentAdded(a0, h, geometry) ==
    LET a == IF a0.chain THEN [a0 EXCEPT !.tempLine = FALSE] ELSE clearTemp(a0) IN
    [a EXCEPT !.routes = [h.routes EXCEPT !.segs =
                             Append(@, [from |-> PinnedText(h.from), to |-> PinnedText(h.to),
                                        fromCoords |-> Some(h.from),
                                        toCoords |-> Some(h.to),
                                        geometry |-> geometry])],
              !.drawn = Append(@, [fromCoords |-> h.from, toCoords |-> h.to]),
              !.start = IF a.chain THEN Some(h.to) ELSE None,
              !.stale = TRUE]

\* lines 235-267: the click goes to the pending pick target
pickApplies(a) ==
    /\ a.pick # None
    /\ a.pick[1].type = "seg" => a.pick[1].idx <= Len(a.routes.segs)

\* line 245: if(!String(seg?.[key]||'').trim()) seg[key] = `Pinned (...)`
orPinned(label, p) == IF label = NoText THEN PinnedText(p) ELSE label

picked(a, p) ==
    LET t == a.pick[1]
    IN [a EXCEPT !.routes =
                    IF t.type = "seg"
                    THEN IF t.key = "from"
                         THEN [@ EXCEPT !.segs[t.idx].fromCoords = Some(p),
                                        !.segs[t.idx].from = orPinned(@, p)]
                         ELSE [@ EXCEPT !.segs[t.idx].toCoords = Some(p),
                                        !.segs[t.idx].to = orPinned(@, p)]
                    ELSE IF t.key = "start"
                         THEN [@ EXCEPT !.startCoords = Some(p)]
                         ELSE [@ EXCEPT !.endCoords = Some(p)],
                 !.pick = None,
                 !.stale = TRUE]

\* lines 233-345: the click handler of the preview map, up to its await
clicked(a, p) ==
    IF pickApplies(a) THEN picked(a, p)
    ELSE LET b == [a EXCEPT !.pick = None]
         IN IF ~b.enabled THEN b
            ELSE IF b.start = None THEN [b EXCEPT !.start = Some(p)]
            ELSE LET h == [from |-> b.start[1], to |-> p, routes |-> b.routes]
                 IN IF b.snap THEN [b EXCEPT !.handlers = Append(@, h)]
                    ELSE segmentAdded(b, h, FALSE)

\* lines 452-475: the segments from index k on that carry a geometry are drawn
\* without waiting, up to the first one that needs resolveEndpoint/osrmRoute
\* line 453: if(!seg?.from || !seg?.to) continue
skipped(seg) == seg.from = NoText \/ seg.to = NoText

RECURSIVE firstWaiting(_, _)
firstWaiting(segs, k) ==
    IF k > Len(segs) \/ (~skipped(segs[k]) /\ ~segs[k].geometry) THEN k
    ELSE firstWaiting(segs, k + 1)

linesOf(r, from, to) ==
    LET all == [i \in 1..(to - from) |-> [rid |-> r.rid, idx |-> from + i - 1, gen |-> r.gen]]
        drawn(line) == ~skipped(r.segs[line.idx])
    IN SelectSeq(all, drawn)

\* lines 431-433 and 481: map._container.isConnected of the run's own map
isMapLive(a, r) == a.open /\ ~a.stale /\ a.gen = r.gen

\* lines 449-490 from segment k of run r on: the lines drawn at once, then
\* either the wait for the next segment or the end of the run
continued(a, r, k) ==
    LET w == firstWaiting(r.segs, k)
        b == [a EXCEPT !.layer = IF a.open THEN @ \o linesOf(r, k, w) ELSE @]
    IN IF w <= Len(r.segs)
       THEN [b EXCEPT !.previews = Append(@, [r EXCEPT !.at = w])]
       ELSE IF isMapLive(b, r) THEN [b EXCEPT !.pstatus = "Preview ready."] ELSE b

\* lines 428-449: drawLstPreview(container, routeId) up to its first await
drawLstPreview(a) ==
    continued([a EXCEPT !.layer = << >>, !.pstatus = "Drawing preview", !.runs = @ + 1],
              [rid |-> a.edit, gen |-> a.gen, segs |-> a.routes.segs, at |-> 0], 1)

\* a click on the preview map; the map of a replaced host takes no clicks
MapClick(p) ==
    /\ admin.open /\ ~admin.stale /\ admin.acts < MaxActs
    /\ admin' = clicked([admin EXCEPT !.acts = @ + 1], p)
    /\ UNCHANGED << geoVars, osrmVars, buildVars, labelled, flights, page, lstStore >>

\* lines 307-321: the osrmRoute call of a click handler returns, lines 323-344
SnapLands(n, geometry) ==
    /\ n \in DOMAIN admin.handlers
    /\ admin' = segmentAdded([admin EXCEPT !.handlers = without(@, n)],
                             admin.handlers[n], geometry)
    /\ UNCHANGED << geoVars, osrmVars, buildVars, labelled, flights, page, lstStore >>

\* lines 1176-1179 and 195-200: the timer ADMIN.render set finds a new host
\* and destroyLstPreviewMap (lines 181-193) clears the start point
EnsureMap ==
    /\ admin.open /\ admin.stale
    /\ admin' = drawLstPreview([destroyLstPreviewMap(admin) EXCEPT
                                   !.stale = FALSE, !.gen = @ + 1])
    /\ UNCHANGED << geoVars, osrmVars, buildVars, labelled, flights, page, lstStore >>

\* lines 1201-1210: the Draw button
DrawToggle ==
    /\ admin.open /\ ~admin.stale /\ admin.acts < MaxActs
    /\ admin' = [clearTemp(admin) EXCEPT !.enabled = ~@, !.quiet = FALSE, !.acts = @ + 1]
    /\ UNCHANGED << geoVars, osrmVars, buildVars, labelled, flights, page, lstStore >>

\* lines 1220-1224: the Chain button
ChainToggle ==
    /\ admin.open /\ ~admin.stale /\ admin.acts < MaxActs
    /\ admin' = [admin EXCEPT !.chain = ~@, !.quiet = FALSE, !.acts = @ + 1]
    /\ UNCHANGED << geoVars, osrmVars, buildVars, labelled, flights, page, lstStore >>

\* lines 1234-1238: the Snap button
SnapToggle ==
    /\ admin.open /\ ~admin.stale /\ admin.acts < MaxActs
    /\ admin' = [admin EXCEPT !.snap = ~@, !.quiet = FALSE, !.acts = @ + 1]
    /\ UNCHANGED << geoVars, osrmVars, buildVars, labelled, flights, page, lstStore >>

\* lines 1503-1535 and 1538-1566: a pin button of a segment row or of the
\* route, clicked without shift
PickRequest(t) ==
    /\ admin.open /\ ~admin.stale /\ admin.acts < MaxActs
    /\ t.type = "seg" => t.idx <= Len(admin.routes.segs)
    /\ admin' = [admin EXCEPT !.pick = Some(t), !.quiet = FALSE, !.acts = @ + 1]
    /\ UNCHANGED << geoVars, osrmVars, buildVars, labelled, flights, page, lstStore >>

\* lines 456-470: the calls of the segment a drawLstPreview run waits for
\* return (drawn) or one of them throws; poly.addTo(__lstPrevLayer) takes the
\* layer that is current then, and throws when there is none
PreviewLands(n, drawn) ==
    /\ n \in DOMAIN admin.previews
    /\ LET r == admin.previews[n]
           a == [admin EXCEPT !.previews = without(@, n),
                              !.layer = IF drawn /\ admin.open
                                        THEN Append(@, [rid |-> r.rid, idx |-> r.at,
                                                        gen |-> r.gen])
                                        ELSE @]
       IN admin' = continued(a, r, r.at + 1)
    /\ UNCHANGED << geoVars, osrmVars, buildVars, labelled, flights, page, lstStore >>

\* the editor of a route without segments is open with its map made, in any
\* of the persisted draw settings (lines 1168-1174)
DrawInit ==
    /\ GeoIdle /\ OsrmIdle
    /\ route = None /\ build = IdleBuild /\ preview = None
    /\ labelled = None /\ flights = << >>
    /\ page = IdlePage /\ lstStore = IdleStore
    /\ admin \in { [IdleAdmin EXCEPT !.open = TRUE, !.edit = 1, !.gen = 1,
                                      !.pstatus = "Preview ready.",
                                      !.enabled = e, !.chain = c, !.snap = sn] :
                    e \in BOOLEAN, c \in BOOLEAN, sn \in BOOLEAN }

DrawNext ==
    \/ \E p \in ClickPoints : MapClick(p)
    \/ \E n \in 1..MaxActs, geometry \in BOOLEAN : SnapLands(n, geometry)
    \/ EnsureMap
    \/ \E n \in 1..MaxActs, drawn \in BOOLEAN : PreviewLands(n, drawn)
    \/ DrawToggle
    \/ ChainToggle
    \/ SnapToggle
    \/ \E t \in PickTargets : PickRequest(t)

SpecDraw == DrawInit /\ [][DrawNext]_vars

\* ------------------------------------------------------------------------
\* The admin preview under overlapping draws (admin.js lines 195-215,
\* 420-491, 1243, 1257-1262). The stored routes do not change here, so
\* admin.routes is the stored route that is being edited.
\* ------------------------------------------------------------------------
MaxRuns == 4

EditIds == {1, 2}

StoredRoute(rid) ==
    IF rid = 1
    THEN [EmptyStore EXCEPT !.segs =
             << [from |-> PinnedText(Newmarket), to |-> PinnedText(Leicester),
                 fromCoords |-> Some(Newmarket), toCoords |-> Some(Leicester),
                 geometry |-> FALSE],
                [from |-> PinnedText(Leicester), to |-> PinnedText(Leeds),
                 fromCoords |-> Some(Leicester), toCoords |-> Some(Leeds),
                 geometry |-> TRUE] >>]
    ELSE [EmptyStore EXCEPT !.segs =
             << [from |-> PinnedText(Leeds), to |-> PinnedText(Newmarket),
                 fromCoords |-> Some(Leeds), toCoords |-> Some(Newmarket),
                 geometry |-> FALSE] >>]

\* line 1243: the Refresh button; lines 420-426: the redraw timer fires
PreviewRefresh ==
    /\ admin.open /\ ~admin.stale /\ admin.runs < MaxRuns
    /\ admin' = drawLstPreview(admin)
    /\ UNCHANGED << geoVars, osrmVars, buildVars, labelled, flights, page, lstStore >>

\* lines 1261-1262: an Edit button of the route list, then ADMIN.render
EditRoute(rid) ==
    /\ admin.open /\ ~admin.stale /\ admin.runs < MaxRuns
    /\ admin' = [admin EXCEPT !.edit = rid, !.routes = StoredRoute(rid), !.stale = TRUE]
    /\ UNCHANGED << geoVars, osrmVars, buildVars, labelled, flights, page, lstStore >>

\* lines 1257-1260: ADMIN.render with no route in the editor
CloseEditor ==
    /\ admin.open /\ ~admin.stale
    /\ admin' = [destroyLstPreviewMap(admin) EXCEPT !.open = FALSE]
    /\ UNCHANGED << geoVars, osrmVars, buildVars, labelled, flights, page, lstStore >>

\* the editor of a stored route is open and the timer of lines 1176-1179 has
\* made the map and begun the first preview
PreviewInit ==
    /\ GeoIdle /\ OsrmIdle
    /\ route = None /\ build = IdleBuild /\ preview = None
    /\ labelled = None /\ flights = << >>
    /\ page = IdlePage /\ lstStore = IdleStore
    /\ admin \in { drawLstPreview([IdleAdmin EXCEPT !.open = TRUE, !.edit = rid, !.gen = 1,
                                                     !.routes = StoredRoute(rid)]) :
                    rid \in EditIds }

PreviewNext ==
    \/ PreviewRefresh
    \/ \E rid \in EditIds : EditRoute(rid)
    \/ EnsureMap
    \/ \E n \in 1..MaxRuns, drawn \in BOOLEAN : PreviewLands(n, drawn)
    \/ CloseEditor

SpecPreview == PreviewInit /\ [][PreviewNext]_vars

\* ------------------------------------------------------------------------
\* Picking coordinates for the fields of a stored route (admin.js lines
\* 233-269, 1500-1568)
\* ------------------------------------------------------------------------
PickPoints == ClickPoints \cup {Paris}

\* a stored route whose text fields are partly empty
PickRoute(sl, el) ==
    [EmptyStore EXCEPT
        !.startLabel = sl, !.endLabel = el,
        !.segs = << [from |-> Text("Ely"), to |-> NoText,
                     fromCoords |-> None, toCoords |-> None, geometry |-> FALSE],
                    [from |-> NoText, to |-> Text("Depot"),
                     fromCoords |-> None, toCoords |-> None, geometry |-> FALSE] >>]

\* lines 1516-1522 and 1549-1554 with openCoordsModal (lines 1362-1375): a
\* pin button clicked with shift, two numbers typed, Save; the text fields
\* are left alone
CoordsSaved(t, p) ==
    /\ admin.open /\ ~admin.stale /\ admin.acts < MaxActs
    /\ t.type = "seg" => t.idx <= Len(admin.routes.segs)
    /\ admin' = IF isFinite(p.lat) /\ isFinite(p.lng)
                THEN [admin EXCEPT
                        !.routes =
                           IF t.type = "seg"
                           THEN IF t.key = "from"
                                THEN [@ EXCEPT !.segs[t.idx].fromCoords = Some(p)]
                                ELSE [@ EXCEPT !.segs[t.idx].toCoords = Some(p)]
                           ELSE IF t.key = "start"
                                THEN [@ EXCEPT !.startCoords = Some(p)]
                                ELSE [@ EXCEPT !.endCoords = Some(p)],
                        !.stale = TRUE, !.quiet = FALSE, !.acts = @ + 1]
                ELSE [admin EXCEPT !.quiet = FALSE, !.acts = @ + 1]
    /\ UNCHANGED << geoVars, osrmVars, buildVars, labelled, flights, page, lstStore >>

PickInit ==
    /\ GeoIdle /\ OsrmIdle
    /\ route = None /\ build = IdleBuild /\ preview = None
    /\ labelled = None /\ flights = << >>
    /\ page = IdlePage /\ lstStore = IdleStore
    /\ admin \in { drawLstPreview([IdleAdmin EXCEPT !.open = TRUE, !.edit = 1, !.gen = 1,
                                                     !.enabled = e,
                                                     !.routes = PickRoute(sl, el)]) :
                    e \in BOOLEAN, sl \in {NoText, Text("Depot")},
                    el \in {NoText, Text("Depot")} }

PickNext ==
    \/ \E t \in PickTargets : PickRequest(t)
    \/ \E p \in PickPoints : MapClick(p)
    \/ EnsureMap
    \/ \E n \in 1..MaxActs, drawn \in BOOLEAN : PreviewLands(n, drawn)

SpecPick == PickInit /\ [][PickNext]_vars

\* every way of storing an override: the pick click, the draw clicks, the
\* coordinates typed into the modal
CoordsNext ==
    \/ \E t \in PickTargets : PickRequest(t)
    \/ \E p \in PickPoints : MapClick(p)
    \/ \E t \in PickTargets, p \in {Newmarket, Paris, NaNPoint} : CoordsSaved(t, p)
    \/ EnsureMap

SpecCoords == PickInit /\ [][CoordsNext]_vars

\* ------------------------------------------------------------------------
\* The draw preview line under the pointer (admin.js lines 346-410)
\* ------------------------------------------------------------------------
\* lines 358-362 and 388-396: a move with snap on
snapMove(a, key) ==
    LET b == IF key # a.snapKey
             THEN [clearSnapTimer(a) EXCEPT
                      !.snapKey = key,
                      !.snapTimer = a.acts,
                      !.timers = Append(@, [id |-> a.acts, a |-> key[1][1], b |-> key[1][2]])]
             ELSE a
    IN [b EXCEPT !.tempLine = TRUE]

\* lines 346-410: the mousemove handler; acts was counted before, so it
\* names the timer
MouseMove(p) ==
    /\ admin.open /\ ~admin.stale /\ admin.acts < MaxActs
    /\ LET a == [admin EXCEPT !.acts = @ + 1]
       IN admin' = IF ~a.enabled \/ a.start = None THEN a
                   ELSE IF a.snap THEN snapMove(a, Some(<< a.start[1], p >>))
                   ELSE [a EXCEPT !.tempLine = TRUE]
    /\ UNCHANGED << geoVars, osrmVars, buildVars, labelled, flights, page, lstStore >>

\* lines 362-365: a timer fires after 280 ms and calls osrmRoute
HoverTimerFires(n) ==
    /\ n \in DOMAIN admin.timers
    /\ admin' = [admin EXCEPT !.timers = without(@, n), !.snapTimer = 0,
                              !.hovers = Append(@, [a |-> admin.timers[n].a,
                                                    b |-> admin.timers[n].b]),
                              !.requests = @ + 1]
    /\ UNCHANGED << geoVars, osrmVars, buildVars, labelled, flights, page, lstStore >>

\* lines 365-386: osrmRoute returns to the timer callback, or throws
HoverLands(n, thrown) ==
    /\ n \in DOMAIN admin.hovers
    /\ admin' = [admin EXCEPT !.hovers = without(@, n),
                              !.tempLine = IF thrown THEN @ ELSE TRUE]
    /\ UNCHANGED << geoVars, osrmVars, buildVars, labelled, flights, page, lstStore >>

HoverNext ==
    \/ \E p \in ClickPoints : MapClick(p)
    \/ \E p \in ClickPoints : MouseMove(p)
    \/ \E n \in 1..MaxActs : HoverTimerFires(n)
    \/ \E n \in 1..MaxActs, thrown \in BOOLEAN : HoverLands(n, thrown)
    \/ \E n \in 1..MaxActs, geometry \in BOOLEAN : SnapLands(n, geometry)
    \/ EnsureMap
    \/ DrawToggle
    \/ SnapToggle

SpecHover == DrawInit /\ [][HoverNext]_vars

\* ------------------------------------------------------------------------
\* LST_STORE: the routes under localStorage key hgv.lst.routes (lines 66-80,
\* 504-509, 1016-1036; admin.js lines 1490-1498)
\* ------------------------------------------------------------------------
MaxStoreOps == 6

Null == -999999

StoredRouteOf(id) == [id |-> id, lat |-> 5224]

\* lines 11-40: SEED_ROUTES, cut to one route
SEED_ROUTES == << StoredRouteOf(1) >>

\* the arrays of routes handed to save
RouteArrays ==
    { << >>, << StoredRouteOf(1) >>, << StoredRouteOf(2) >>,
      << StoredRouteOf(1), StoredRouteOf(2) >>, << StoredRouteOf(2), StoredRouteOf(3) >> }

\* an argument of save: an array of routes, or something else (null, an object)
ArrayArg(routes) == [array |-> TRUE, routes |-> routes]
OtherArg == [array |-> FALSE, routes |-> << >>]

\* JSON.parse(JSON.stringify(routes)): a NaN number comes back as null
throughJSON(routes) ==
    [n \in DOMAIN routes |->
        [routes[n] EXCEPT !.lat = IF routes[n].lat = NaN THEN Null ELSE @]]

\* lines 504-509: ensureSeedRoutes()
ensureSeedRoutes(st) ==
    IF st.item # None /\ Len(st.item[1]) # 0
    THEN [st EXCEPT !.got = Some(st.item[1])]
    ELSE [st EXCEPT !.item = Some(throughJSON(SEED_ROUTES)), !.got = Some(SEED_ROUTES)]

\* lines 1023-1026: save(routes)
save(st, arg) ==
    IF ~arg.array THEN [st EXCEPT !.arg = Some(arg), !.got = None]
    ELSE [st EXCEPT !.item = Some(throughJSON(arg.routes)), !.arg = Some(arg), !.got = None]

\* lines 1020-1022: LST_STORE.get()
StoreGet ==
    /\ lstStore.ops < MaxStoreOps
    /\ lstStore' = [ensureSeedRoutes(lstStore) EXCEPT !.ops = @ + 1]
    /\ UNCHANGED << geoVars, osrmVars, buildVars, labelled, flights, page, admin >>

\* lines 1023-1026: LST_STORE.save(routes)
StoreSave(arg) ==
    /\ lstStore.ops < MaxStoreOps
    /\ lstStore' = [save(lstStore, arg) EXCEPT !.ops = @ + 1]
    /\ UNCHANGED << geoVars, osrmVars, buildVars, labelled, flights, page, admin >>

\* admin.js lines 1490-1498: Delete route, confirmed
DeleteRoute(rid) ==
    /\ lstStore.ops < MaxStoreOps
    /\ LET read == ensureSeedRoutes(lstStore)
           kept(r) == r.id # rid
       IN lstStore' = [save(read, ArrayArg(SelectSeq(read.got[1], kept))) EXCEPT !.ops = @ + 1]
    /\ UNCHANGED << geoVars, osrmVars, buildVars, labelled, flights, page, admin >>

StoreInit ==
    /\ GeoIdle /\ OsrmIdle
    /\ route = None /\ build = IdleBuild /\ preview = None
    /\ labelled = None /\ flights = << >>
    /\ page = IdlePage /\ admin = IdleAdmin
    /\ lstStore = IdleStore

StoreNext ==
    \/ StoreGet
    \/ \E R \in RouteArrays : StoreSave(ArrayArg(R))
    \/ StoreSave(OtherArg)
    \/ \E rid \in 1..3 : DeleteRoute(rid)

SpecStore == StoreInit /\ [][StoreNext]_vars

\* ------------------------------------------------------------------------
\* Labels handed to the place search
\* ------------------------------------------------------------------------
\* the labels of the geocodePlace calls of the build so far
BuildLabels == { build.calls[n].label : n \in 1..Len(build.calls) }

\* the label of the geocodePlace call the preview made through
\* resolveEndpoint (lines 284-289), none when it made no call
PreviewLabels ==
    IF preview = None THEN {}
    ELSE LET seg == route[1].segments[preview[1].seg]
         IN IF resolveOverride(segCoords(seg, preview[1].key)) # None THEN {}
            ELSE {trim(segLabel(seg, preview[1].key))} \ {<< >>}

\* C13: no geocodePlace call, of the route build or of resolveEndpoint, is
\* made with a label that is a bare road name (isRoadOnlyLabel).
C13_NoRoadOnlyGeocode ==
    \A label \in BuildLabels \cup PreviewLabels : ~isRoadOnlyLabel(label)

\* ------------------------------------------------------------------------
\* The decision table of the classifier
\* ------------------------------------------------------------------------
Classified == labelled # None /\ labelled[1].pc = "classified"

hasAny(s, words) == \E w \in words : hasWord(s, w)

\* C14 as stated: the classifier says true for the empty label, false for a
\* label that holds a postcode, else true for a label that starts with a
\* motion verb, else true only for a label that holds an ordinal together
\* with a roundabout or flyover word and an action word, else false.
C14_TableAsStated ==
    Classified =>
        \E s \in {trim(labelled[1].label)} :
            labelled[1].result =
               (\/ s = << >>
                \/ /\ ~hasPostcode(s)
                   /\ \/ \E w \in MotionVerbs : startsWithWord(s, w)
                      \/ /\ hasAny(s, Ordinals)
                         /\ hasAny(s, JunctionNames)
                         /\ hasAny(s, ActionWords))

\* C14, amended: the same table, whose last rule asks for an action word
\* together with any one of the ordinal, roundabout and flyover words.
C14_Table ==
    Classified =>
        \E s \in {trim(labelled[1].label)} :
            /\ s = << >> => labelled[1].result
            /\ hasPostcode(s) => ~labelled[1].result
            /\ (s # << >> /\ ~hasPostcode(s)) =>
                  labelled[1].result =
                     (\/ \E w \in MotionVerbs : startsWithWord(s, w)
                      \/ /\ hasAny(s, Ordinals \cup JunctionNames)
                         /\ hasAny(s, ActionWords))

\* a label with a flyover and an action word and no ordinal was classified
\* as an instruction by the last rule
C14_Witness ==
    /\ Classified
    /\ labelled[1].result
    /\ \E s \in {trim(labelled[1].label)} :
          /\ s # << >> /\ ~hasPostcode(s)
          /\ ~\E w \in MotionVerbs : startsWithWord(s, w)
          /\ ~hasAny(s, Ordinals)
          /\ hasAny(s, JunctionNames)

\* ------------------------------------------------------------------------
\* Segments drawn and segments failed
\* ------------------------------------------------------------------------
\* the segments whose line is on the map, and those that threw
DrawnSegments == { n \in 1..Len(build.segLog) : build.segLog[n].outcome # "failed" }
FailedSegments == { n \in 1..Len(build.segLog) : build.segLog[n].outcome = "failed" }

LoopOver == build.pc \in {"fallback", "fallbackEnd", "fallbackRoute", "done"}

\* C15: the segments are attempted in order, each one draws one line or
\* adds one to failedSegments, and once the loop is over the lines drawn
\* plus failedSegments make the number of segments.
C15_EverySegmentCounted ==
    route # None =>
        /\ \A n \in 1..Len(build.segLog) : build.segLog[n].seg = n
        /\ build.failedSegments = Cardinality(FailedSegments)
        /\ build.pc \in {"seg", "to", "route"} => Len(build.segLog) = build.i - 1
        /\ LoopOver =>
              Cardinality(DrawnSegments) + build.failedSegments = Len(route[1].segments)

\* three segments, the second failed, the first and the third are drawn
C15_Witness ==
    /\ build.pc = "done"
    /\ Len(route[1].segments) = 3
    /\ DrawnSegments = {1, 3}
    /\ build.failedSegments = 1

\* ------------------------------------------------------------------------
\* The whole-route fallback
\* ------------------------------------------------------------------------
\* the journey start, the journey end resolve: pinned inside the envelope, or
\* found by the geocodePlace call of lines 694, 698
resolves(coords, key) ==
    \/ pinned(coords)
    \/ \E n \in 1..Len(build.calls) :
          build.calls[n].key = key /\ build.calls[n].ret # None

StartResolves == resolves(route[1].startCoords, "fallbackStart")
EndResolves == resolves(route[1].endCoords, "fallbackEnd")

\* the osrmRoute calls made for a fallback line
FallbackLines == { n \in 1..Len(build.routed) : build.routed[n].seg = 0 }

\* C16: when the build is over there is a fallback line exactly if a segment
\* failed and the journey start and end both resolved; there is never more
\* than one; and the steps of the fallback leave the segments' lines as they
\* were.
C16_FallbackWhenFailed ==
    [][/\ build'.pc = "done" =>
             (build'.fallback # None <=>
                 (build'.failedSegments > 0 /\ StartResolves' /\ EndResolves'))
       /\ build'.fallback # None =>
             /\ Cardinality(FallbackLines') = 1
             /\ inUkPoint(build'.fallback[1].from) /\ inUkPoint(build'.fallback[1].to)
       /\ build'.fallback = None => FallbackLines' = {}
       /\ LoopOver => build'.segLog = build.segLog]_vars

\* a build that ended with a failed segment, a drawn segment and the fallback line
C16_Witness ==
    /\ build.pc = "done"
    /\ build.failedSegments > 0
    /\ DrawnSegments # {}
    /\ build.fallback # None

\* ------------------------------------------------------------------------
\* resolveEndpoint without an override
\* ------------------------------------------------------------------------
\* what resolveEndpoint(seg, key, hint, labelOverride) has to do when the
\* segment has no usable override
afterResolveEndpoint(seg, key, hint, labelOverride) ==
    LET raw == trim(IF labelOverride # None THEN labelOverride[1] ELSE segLabel(seg, key))
        finite == hint # None /\ isFinite(hint[1].lat) /\ isFinite(hint[1].lng)
        h == geocodeHead(geoStore, "resolveEndpoint", raw, hint)
    IN IF raw = << >>
       THEN /\ gc'.pc = "done" /\ gc'.nreq = 0
            /\ geoStore' = geoStore
            /\ IF finite THEN gc'.ret = hint /\ gc'.err = ""
               ELSE gc'.ret = None /\ gc'.err = "Missing geocode label"
       ELSE gc' = h[1] /\ geoStore' = h[2]

\* C17: resolveEndpoint on a segment with no override inside the envelope
\* returns the hint for an empty label when the hint is finite, fails with
\* "Missing geocode label" when it is not, both without a request, and for
\* any other label does what geocodePlace(label, hint) does.  (The call
\* record keeps the hint the call was made with.)
C17_ResolveWithoutOverride ==
    [][(gcalls' # gcalls /\ gc'.via = "resolveEndpoint") =>
         \A seg \in ResolveSegs, key \in {"from", "to"}, hint \in {gc'.hint},
            labelOverride \in LabelOverrides :
              (/\ ~inUkBounds(Number(segCoords(seg, key), "lat"),
                              Number(segCoords(seg, key), "lng"))
               /\ ResolveEndpointCall(seg, key, hint, labelOverride))
              => afterResolveEndpoint(seg, key, hint, labelOverride)]_vars

\* resolveEndpoint gave back the hint it was handed
C17_Witness ==
    /\ gc.pc = "done" /\ gc.via = "resolveEndpoint"
    /\ gc.path = "hint" /\ gc.ret = gc.hint /\ gc.ret # None
    /\ gc.nreq = 0

\* ------------------------------------------------------------------------
\* The final status
\* ------------------------------------------------------------------------
\* C18: a build that ends with failed segments does not end on "Ready.",
\* which is kept for builds where no segment failed; a build that drew
\* nothing ends on the no-segments message.
C18_StatusReportsFailures ==
    build.pc = "done" =>
        /\ build.status = "Ready." => build.failedSegments = 0
        /\ ~anyLine(build) => build.status = "No segments could be drawn"

\* ------------------------------------------------------------------------
\* The chain anchor prev
\* ------------------------------------------------------------------------
\* this step ends a segment; its entry in the log
SegmentEnds == Len(build'.segLog) = Len(build.segLog) + 1
EndedSegment == build'.segLog[Len(build'.segLog)]

AllLanded == flights # << >> /\ \A n \in 1..Len(flights) : flights[n].c.pc = "done"

\* the entry call n wrote is in the stored cache
stillStored(f) ==
    IF f.kind = "geocode"
    THEN geoStore # None /\ f.c.k \in DOMAIN geoStore[1].e
    ELSE cacheIndex(osrmStore, f.c.k) # 0

\* C20: once every overlapping call has completed, the stored caches hold
\* the entry of every call that fetched and stored a result.
C20_NoLostUpdate ==
    AllLanded =>
        \A n \in 1..Len(flights) : flights[n].c.path = "fresh" => stillStored(flights[n])

\* ------------------------------------------------------------------------
\* The 180 km guard
\* ------------------------------------------------------------------------
\* more than 180 km apart
farApart(a, b) == haversineMetersSimple(a, b) > 180000

\* the osrmRoute calls made for segment n
RoutedFor(n) == { m \in 1..Len(build.routed) : build.routed[m].seg = n }

\* C26: a segment whose resolved anchors lie more than 180 km apart is never
\* drawn: the step that finds its to anchor fails it, adds one to
\* failedSegments, makes no routing request and leaves prev alone; every
\* segment drawn from resolved anchors spans at most 180 km.
C26_NoLongJump ==
    [][build.pc = "to" =>
         /\ build'.pc = "route" => ~farApart(build'.a[1], build'.b[1])
         /\ (SegmentEnds /\ EndedSegment.b # None /\ inUkPoint(EndedSegment.b[1])) =>
               /\ farApart(EndedSegment.a[1], EndedSegment.b[1])
               /\ EndedSegment.outcome = "failed"
               /\ EndedSegment.why = "Unrealistic segment jump"
               /\ build'.failedSegments = build.failedSegments + 1
               /\ build'.routed = build.routed
               /\ build'.prev = build.prev
         /\ \A n \in 1..Len(build.segLog) :
               build.segLog[n].outcome \in {"routed", "straight"} =>
                  ~farApart(build.segLog[n].a[1], build.segLog[n].b[1])]_vars

\* a segment failed on the guard after its two anchors were found, and was
\* not routed
C26_Witness ==
    \E n \in 1..Len(build.segLog) :
        /\ build.segLog[n].why = "Unrealistic segment jump"
        /\ farApart(build.segLog[n].a[1], build.segLog[n].b[1])
        /\ RoutedFor(n) = {}
        /\ build.failedSegments >= 1

\* ------------------------------------------------------------------------
\* A segment the routing service has no path for
\* ------------------------------------------------------------------------
\* osrmRoute(a, b) has just returned null: it stores every path it returns
NoPathStored(a, b) == cacheIndex(osrmStore', osrmKey(a, b)) = 0

\* C27: when osrmRoute returns null for a segment whose two anchors are
\* resolved, the segment is drawn as the straight dashed line from a to b,
\* failedSegments stays as it was and prev is the to anchor.
C27_StraightLineOnNull ==
    [][(build.pc = "route" /\ NoPathStored(build.a[1], build.b[1])) =>
         /\ SegmentEnds
         /\ EndedSegment.outcome = "straight"
         /\ EndedSegment.a = build.a /\ EndedSegment.b = build.b
         /\ build'.failedSegments = build.failedSegments
         /\ build'.prev = build.b]_vars

\* a segment drawn as a straight line after a routing request that failed
C27_Witness ==
    \E n \in 1..Len(build.segLog) :
        /\ build.segLog[n].outcome = "straight"
        /\ \E m \in RoutedFor(n) : build.routed[m].nreq = 1
        /\ build.prev = build.segLog[n].b
        /\ build.failedSegments = 0

\* ------------------------------------------------------------------------
\* Segments with stored geometry
\* ------------------------------------------------------------------------
\* the build is about to take up a segment that has stored geometry
AtStoredGeometry ==
    /\ build.pc = "seg" /\ build.i <= Len(route[1].segments)
    /\ Len(route[1].segments[build.i].geometry) >= 2

FirstPoint == route[1].segments[build.i].geometry[1]
LastPoint ==
    route[1].segments[build.i].geometry[Len(route[1].segments[build.i].geometry)]

\* the segment was drawn from its geometry with no geocodePlace and no
\* osrmRoute call
DrawnAsStored ==
    /\ build'.calls = build.calls /\ build'.routed = build.routed
    /\ geoStore' = geoStore /\ osrmStore' = osrmStore
    /\ SegmentEnds /\ EndedSegment.seg = build.i
    /\ EndedSegment.outcome = "geometry"
    /\ EndedSegment.a = Some(Pt(FirstPoint[2], FirstPoint[1]))
    /\ EndedSegment.b = Some(Pt(LastPoint[2], LastPoint[1]))
    /\ build'.failedSegments = build.failedSegments

\* C28 as stated: a segment with stored geometry is drawn from it with no
\* geocode and no routing call, and prev becomes the last point of the
\* geometry.
C28_GeometrySetsPrev ==
    [][AtStoredGeometry =>
         /\ DrawnAsStored
         /\ build'.prev = Some(Pt(LastPoint[2], LastPoint[1]))]_vars

\* C28, amended: prev becomes the last point of the geometry when that
\* point lies inside the envelope, and keeps its value when it does not.
C28_GeometrySetsPrevInEnvelope ==
    [][AtStoredGeometry =>
         /\ DrawnAsStored
         /\ build'.prev = IF LastPoint[1] >= UK_BOUNDS.minLng /\ LastPoint[1] <= UK_BOUNDS.maxLng
                             /\ LastPoint[2] >= UK_BOUNDS.minLat
                             /\ LastPoint[2] <= UK_BOUNDS.maxLat
                          THEN Some(Pt(LastPoint[2], LastPoint[1]))
                          ELSE build.prev]_vars

\* a segment was drawn from its geometry and prev is the geometry's last point
C28_Witness ==
    \E n \in 1..Len(build.segLog) :
        /\ build.segLog[n].outcome = "geometry"
        /\ build.prev = build.segLog[n].b
        /\ \A m \in 1..Len(build.calls) : build.calls[m].seg # n
        /\ RoutedFor(n) = {}

\* ------------------------------------------------------------------------
\* The order of the external calls of a build
\* ------------------------------------------------------------------------
\* this step made a geocodePlace call, an osrmRoute call; the call
Geocoded == Len(build'.calls) = Len(build.calls) + 1
NewCall == build'.calls[Len(build'.calls)]
Routed == Len(build'.routed) = Len(build.routed) + 1
NewRouted == build'.routed[Len(build'.routed)]

\* no call has been made yet for a segment after n
NothingAfter(n) ==
    /\ \A m \in 1..Len(build.calls) : build.calls[m].seg <= n
    /\ \A m \in 1..Len(build.routed) : build.routed[m].seg <= n

\* C29: the calls of a build are made one at a time and segment by segment:
\* each call of the loop is for the segment the loop is at, for which the
\* from lookup comes first, the to lookup next and the routing request
\* last, and the loop never steps back; the to lookup is given the from
\* anchor as its hint, which is prev whenever prev is set.
C29_CallsInSegmentOrder ==
    [][build.pc \in {"seg", "to", "route"} =>
         /\ build'.calls = build.calls \/ Geocoded
         /\ build'.routed = build.routed \/ Routed
         /\ ~(Geocoded /\ Routed)
         /\ build'.i >= build.i
         /\ Geocoded =>
               /\ NewCall.seg = build.i /\ NothingAfter(build.i)
               /\ RoutedFor(build.i) = {}
               /\ NewCall.key = IF build.pc = "seg" THEN "from" ELSE "to"
               /\ NewCall.key = "from" =>
                     /\ NewCall.hint = None
                     /\ \A m \in 1..Len(build.calls) : build.calls[m].seg # build.i
               /\ NewCall.key = "to" =>
                     /\ NewCall.hint = build.a /\ build.a # None
                     /\ build.prev # None => NewCall.hint = build.prev
         /\ Routed =>
               /\ build.pc = "route"
               /\ NewRouted.seg = build.i /\ NothingAfter(build.i)
               /\ RoutedFor(build.i) = {}
               /\ Some(NewRouted.from) = build.a /\ Some(NewRouted.to) = build.b]_vars

\* the to lookup of the second segment was given the to anchor of the first
C29_Witness ==
    /\ Len(build.segLog) >= 1
    /\ build.segLog[1].outcome \in {"routed", "straight"}
    /\ \E m \in 1..Len(build.calls) :
          /\ build.calls[m].seg = 2 /\ build.calls[m].key = "to"
          /\ build.calls[m].hint = build.segLog[1].b

\* ------------------------------------------------------------------------
\* The public map under a stalled call and under selection changes
\* ------------------------------------------------------------------------
\* the route whose call stalled
StalledRoute == page.ids[page.at]

\* C22: when a call of one route stalls, every other selected route that the
\* running build was asked to draw still gets onto the map.
C22_StallBlocksOnlyItsRoute ==
    \A id \in RouteIds :
        (page.stalled /\ id \in page.selected /\ id # StalledRoute
                      /\ \E n \in DOMAIN page.ids : page.ids[n] = id)
            ~> (id \in page.layer \/ id \notin page.selected)

\* C23: whenever no build is running the map shows exactly the selected
\* routes.
C23_LatestSelectionShown ==
    ~page.loading => page.layer = page.selected

\* ------------------------------------------------------------------------
\* Drawing and picking in the admin route editor
\* ------------------------------------------------------------------------
\* no click handler is waiting for osrmRoute
NoSnapInFlight == admin.handlers = << >>

\* every segment the click handlers appended is in the store
AllDrawnStored == Len(admin.routes.segs) = Len(admin.drawn)

\* each drawn segment starts where the one before it ended
Chained ==
    \A n \in 2..Len(admin.drawn) :
        admin.drawn[n].fromCoords = admin.drawn[n - 1].toCoords

\* C21: in draw mode every appended segment stays in the store, and with
\* chain on every further segment starts at the end of the one before it,
\* whatever the interleaving of clicks with a snap request in flight.
C21_DrawnSegmentsKept ==
    /\ NoSnapInFlight => AllDrawnStored
    /\ (admin.quiet /\ admin.chain) => Chained

\* C30: a pick target and a pending draw start point are never both set.
C30_OneCapturePending ==
    ~(admin.pick # None /\ admin.start # None)

\* ------------------------------------------------------------------------
\* The admin preview layer
\* ------------------------------------------------------------------------
\* C24: every line on the preview layer was put there by a drawLstPreview
\* run that began on the map the layer belongs to.
C24_NoResultOnReplacedSurface ==
    \A n \in DOMAIN admin.layer : admin.layer[n].gen = admin.gen

\* C25: once no preview run is waiting and the map of the editor is made, the
\* preview layer holds at most one line per segment and only lines of the
\* route that is being edited.
C25_OneLinePerSegment ==
    (admin.previews = << >> /\ ~admin.stale) =>
        /\ \A n, m \in DOMAIN admin.layer :
               admin.layer[n].idx = admin.layer[m].idx => n = m
        /\ \A n \in DOMAIN admin.layer : admin.layer[n].rid = admin.edit

\* ------------------------------------------------------------------------
\* Pick mode
\* ------------------------------------------------------------------------
\* the *Coords field and the text field a pick target names
targetCoords(routes, t) ==
    IF t.type = "seg"
    THEN IF t.key = "from" THEN routes.segs[t.idx].fromCoords ELSE routes.segs[t.idx].toCoords
    ELSE IF t.key = "start" THEN routes.startCoords ELSE routes.endCoords

targetLabel(routes, t) ==
    IF t.type = "seg"
    THEN IF t.key = "from" THEN routes.segs[t.idx].from ELSE routes.segs[t.idx].to
    ELSE IF t.key = "start" THEN routes.startLabel ELSE routes.endLabel

\* the step is the map click that a pending pick target captures: it ends
\* with ADMIN.render
PickCaptured == admin.pick # None /\ ~admin.stale /\ admin'.stale

\* C31: the click after a pick request stores the clicked point in the
\* target's *Coords field, puts the Pinned text in the target's text field
\* when that was empty, and clears the pick target, for every kind of target.
C31_PickCapturesOneClick ==
    [][PickCaptured =>
          \E p \in PickPoints :
              /\ targetCoords(admin'.routes, admin.pick[1]) = Some(p)
              /\ targetLabel(admin'.routes, admin.pick[1]) =
                     IF targetLabel(admin.routes, admin.pick[1]) = NoText
                     THEN PinnedText(p)
                     ELSE targetLabel(admin.routes, admin.pick[1])
              /\ admin'.pick = None]_vars

\* C31 for the fields of a segment only
C31_SegmentPick ==
    [][(PickCaptured /\ admin.pick[1].type = "seg") =>
          \E p \in PickPoints :
              /\ targetCoords(admin'.routes, admin.pick[1]) = Some(p)
              /\ targetLabel(admin'.routes, admin.pick[1]) =
                     IF targetLabel(admin.routes, admin.pick[1]) = NoText
                     THEN PinnedText(p)
                     ELSE targetLabel(admin.routes, admin.pick[1])
              /\ admin'.pick = None]_vars

\* ------------------------------------------------------------------------
\* The decision order of effectiveLabelForEndpoint
\* ------------------------------------------------------------------------
\* the trimmed label of the endpoint that was asked for
AskedRaw == trim(segLabel(route[1].segments[labelled[1].i], labelled[1].key))

\* the endpoint is the route's first from or last to
Outer ==
    \/ labelled[1].key = "from" /\ labelled[1].i = 1
    \/ labelled[1].key = "to" /\ labelled[1].i = Len(route[1].segments)

\* the route's start or end postcode, else its label
OuterAnchor ==
    IF labelled[1].key = "from"
    THEN trim(IF route[1].startPostcode # << >> THEN route[1].startPostcode
              ELSE route[1].startLabel)
    ELSE trim(IF route[1].endPostcode # << >> THEN route[1].endPostcode
              ELSE route[1].endLabel)

\* the adjacent segment and its label that faces the endpoint
Adjacent ==
    IF labelled[1].key = "to" THEN route[1].segments[labelled[1].i + 1]
    ELSE route[1].segments[labelled[1].i - 1]

Facing == trim(IF labelled[1].key = "to" THEN Adjacent.from ELSE Adjacent.to)

AdjacentToken ==
    IF extractRoadToken(Facing) # << >> THEN extractRoadToken(Facing)
    ELSE extractRoadToken(Adjacent.road)

\* the cases before the neighbouring segment is looked at
OrderUpToOuter(ret) ==
    /\ isRoadOnlyLabel(AskedRaw) => ret = << >>
    /\ (~isRoadOnlyLabel(AskedRaw) /\ ~isInstructionLikeLabel(AskedRaw)) => ret = AskedRaw
    /\ (~isRoadOnlyLabel(AskedRaw) /\ isInstructionLikeLabel(AskedRaw)) =>
          /\ extractRoadToken(AskedRaw) # << >> => ret = extractRoadToken(AskedRaw)
          /\ (extractRoadToken(AskedRaw) = << >> /\ Outer) =>
                ret = (IF OuterAnchor # << >> THEN OuterAnchor ELSE AskedRaw)

\* the endpoint's label is an instruction without a road token and the
\* endpoint is not an outer one
NeedsNeighbour ==
    /\ ~isRoadOnlyLabel(AskedRaw) /\ isInstructionLikeLabel(AskedRaw)
    /\ extractRoadToken(AskedRaw) = << >> /\ ~Outer

\* C32 as stated: after the outer cases, the adjacent segment's facing label
\* when that is not instruction-like, else that segment's road token, else
\* the label itself.
C32_OrderAsStated ==
    labelled # None =>
        /\ OrderUpToOuter(labelled[1].ret)
        /\ NeedsNeighbour =>
              labelled[1].ret =
                 (IF ~isInstructionLikeLabel(Facing) THEN Facing
                  ELSE IF AdjacentToken # << >> THEN AdjacentToken
                  ELSE AskedRaw)

\* C32 amended: as stated, but when the adjacent segment has no road token
\* its whole road text is returned if it has one, and only then the label
\* itself.
C32_Order ==
    labelled # None =>
        /\ OrderUpToOuter(labelled[1].ret)
        /\ NeedsNeighbour =>
              labelled[1].ret =
                 (IF ~isInstructionLikeLabel(Facing) THEN Facing
                  ELSE IF AdjacentToken # << >> THEN AdjacentToken
                  ELSE IF trim(Adjacent.road) # << >> THEN trim(Adjacent.road)
                  ELSE AskedRaw)

\* an endpoint got the road text of its neighbour, which holds no road token
C32_Witness ==
    /\ labelled # None
    /\ NeedsNeighbour
    /\ isInstructionLikeLabel(Facing) /\ AdjacentToken = << >>
    /\ labelled[1].ret = L_HighSt

\* ------------------------------------------------------------------------
\* The debounced preview request and the preview line
\* ------------------------------------------------------------------------
\* the step issues a preview routing request
HoverRequested == admin'.requests # admin.requests

\* C33: at most one preview timer is pending; a preview request is issued by
\* the one pending timer, for the position of the last move, and leaves no
\* timer pending, so the next request needs a move to a new position.
C33_OneTimerPending ==
    /\ [](Len(admin.timers) <= 1)
    /\ [][HoverRequested =>
             /\ Len(admin.timers) = 1
             /\ admin.snapKey = Some(<< admin.timers[1].a, admin.timers[1].b >>)
             /\ admin'.timers = << >>]_vars

\* a timer was replaced by a move to a new position and the new one fired
C33_Witness ==
    /\ admin.requests = 1 /\ admin.timers = << >>
    /\ admin.acts >= 3
    /\ \E n \in DOMAIN admin.hovers :
          admin.snapKey = Some(<< admin.hovers[n].a, admin.hovers[n].b >>)

\* C38: tempLine is set only while a draw start point is pending.
C38_TempLineOnlyWithStart ==
    admin.tempLine => admin.start # None

\* ------------------------------------------------------------------------
\* The throttle before network requests
\* ------------------------------------------------------------------------
\* C34: every place-search request of geocodePlace is issued by the step that
\* ends its throttle delay.
C34_DelayBeforeEveryRequest ==
    [][gc'.nreq > gc.nreq => gc.pc = "throttle"]_vars

\* the routing request of osrmRoute is issued by the step that ends its
\* throttle delay
C34_DelayBeforeRouting ==
    [][oc'.nreq > oc.nreq => oc.pc = "throttle"]_vars

\* ------------------------------------------------------------------------
\* The admin preview against the public build
\* ------------------------------------------------------------------------
\* the build's entries for the segment whose endpoint the preview resolved
\* without a request, so that cache and provider are as the preview met them
PreviewedEntries ==
    { n \in 1..Len(build.segLog) :
        /\ build.segLog[n].seg = preview[1].seg
        /\ build.segLog[n].outcome # "failed" }

\* C35: the anchor the admin preview resolved for an endpoint of a segment is
\* the anchor the public build draws that segment with.
C35_PreviewMatchesBuild ==
    (route # None /\ preview # None /\ preview[1].nreq = 0 /\ preview[1].ret # None) =>
        \A n \in PreviewedEntries :
            preview[1].ret = IF preview[1].key = "from" THEN build.segLog[n].a
                             ELSE build.segLog[n].b

\* ------------------------------------------------------------------------
\* Stored overrides and the route build
\* ------------------------------------------------------------------------
\* the *Coords values the store holds for the edited route
StoredOverrides ==
    ({admin.routes.startCoords, admin.routes.endCoords}
        \cup { admin.routes.segs[n].fromCoords : n \in DOMAIN admin.routes.segs }
        \cup { admin.routes.segs[n].toCoords : n \in DOMAIN admin.routes.segs }) \ {None}

\* C36: every stored override is one that resolveOverride accepts, so the
\* route build uses it.
C36_StoredOverridesUsable ==
    \A coords \in StoredOverrides : resolveOverride(coords) # None

\* ------------------------------------------------------------------------
\* The route store
\* ------------------------------------------------------------------------
\* get() was called after the last save, and that save was given an array
GotAfterSave ==
    lstStore.got # None /\ lstStore.arg # None /\ lstStore.arg[1].array

\* the step is a save with something that is not an array
SavesNonArray == lstStore'.ops # lstStore.ops /\ lstStore'.arg # None /\ ~lstStore'.arg[1].array
                    /\ lstStore'.got = None

\* C37 as stated: get() after save(R) returns R for every array R, the empty
\* one included, and save of a non-array leaves the stored routes as they were.
C37_RoundTrip ==
    /\ [](GotAfterSave => lstStore.got[1] = lstStore.arg[1].routes)
    /\ [][SavesNonArray => lstStore'.item = lstStore.item]_vars

\* ------------------------------------------------------------------------
\* The loading flag of the public map
\* ------------------------------------------------------------------------
\* at most one build executes, and __loading is true exactly while one does
C39_FlagWhileBuilding ==
    /\ page.builds <= 1
    /\ page.loading <=> page.builds = 1

\* C39 as stated: at most one build executes at a time, __loading is true
\* exactly while a build executes, and the map is never left permanently
\* unable to draw: the flag is false again and again.
C39_NeverLeftLoading ==
    /\ []C39_FlagWhileBuilding
    /\ []<>(~page.loading)
====
